---- MODULE Spec2Model ----
(***************************************************************************)
(* Model of .github/lib/fork-and-import.js: the probing phase, the         *)
(* per-repository migration pipeline (both the independent-repository      *)
(* variant and the older platform-fork variant) and the artifact write.    *)
(* Every remote call is a step that may succeed or fail.                   *)
(***************************************************************************)
EXTENDS Integers, Sequences, FiniteSets, TLC

\* ---- bounds ----
MaxRepos == 2
MaxClock == 1
MaxNameLen == 2
MaxParts == 3
MaxPhrases == 2
MaxFiles == 1

\* ---- program constants ----
CreateMaxAttempts == 10
ForkMaxAttempts == 30
PollIntervalMs == 2000

Repos == 1..MaxRepos
Clock == 0..MaxClock

\* Remote calls that change the target organization.
Mutating == {"create", "fork", "disable", "mirrorPush", "fixPush", "enable", "approvePRs", "delete"}

VARIABLES
  variant,      \* "independent" (lines 1-763) or "fork" (lines 765-1239)
  dryRun,       \* !args.includes('--yes')
  n,            \* filteredRepos.length
  srcOrg,       \* repo -> exists in the source organization
  tgt,          \* repo -> state of the repository in the target organization
  pc,           \* position of main()
  i,            \* loop index (probe loop over filteredRepos, then loop over toFork)
  attempts,     \* attempts counter of the polling loop (a local of it: 0 once it returns)
  results,      \* results array of main()
  hasConflicts, \* hasConflicts flag of main()
  steps,        \* repo -> sequence of pipeline steps attempted for it
  failed,       \* repo -> set of steps whose call failed
  started,      \* repos for which the creation sequence was invoked, in order
  err,          \* the error thrown out of the pipeline ("none" if none)
  failedRepo,   \* the repository whose migration threw (0 if none)
  delays,       \* number of rate-limit delays taken
  artifact,     \* content written to import.tf (<<>> while not written)
  exitCode,     \* process exit code (-1 while running)
  cwd,          \* process working directory: "orig", "temp" or "repo.git"
  tempDir,      \* TRUE while a directory made by mktemp -d exists
  probeErr,     \* TRUE once a target probe failed for a reason other than absence
  waited,       \* milliseconds waited in the current polling loop (0 once it returns)
  stackDir,     \* TRUE iff a positional <stack-dir> argument was given
  onlyRepos,    \* {} for null, {X} for the name list X of --only=
  excludeRepos, \* the name list of --exclude= (empty without the flag)
  dirExists,    \* fs.existsSync(stackDir)
  fileExists,   \* fs.existsSync(cdkTfJsonPath)
  snapshot,     \* content of cdk.tf.json
  repos,        \* result of parseCdkTfJson
  filteredRepos,\* result of filterRepositories
  snapshotRead, \* TRUE once cdk.tf.json has been read
  rerun,        \* whether this process is a second invocation, and what the first left behind
  fin,          \* input of the pure function under check
  fout,         \* its output
  fpc           \* "idle", "ready" or "done"

startup == <<stackDir, onlyRepos, excludeRepos, dirExists, fileExists, snapshot,
             repos, filteredRepos, snapshotRead, rerun>>
pure == <<fin, fout, fpc>>

vars == <<variant, dryRun, n, srcOrg, tgt, pc, i, attempts, results, hasConflicts,
          steps, failed, started, err, failedRepo, delays, artifact, exitCode,
          cwd, tempDir, probeErr, waited, startup, pure>>

\* The first invocation of the script.
FirstRun == [active |-> FALSE, left |-> {}]

Absent == [exists |-> FALSE, actions |-> FALSE, history |-> FALSE, fixed |-> FALSE]
Present == [exists |-> TRUE, actions |-> TRUE, history |-> TRUE, fixed |-> FALSE]

\* Variant of toFork that drops the action filter.
toFork_All == results

\* const toFork = results.filter(r => r.action === 'fork')
toFork == SelectSeq(results, LAMBDA r : r.action = "fork")

\* const repo = toFork[i]
CurRepo == toFork[i].repo

\* The fields of a descriptor (parseCdkTfJson): the Terraform resource name
\* and the target repository name of the repository at position r.
ResourceName(r) == <<"resource", r>>
RepoName(r) == <<"name", r>>

\* One line group of import.tf.
Entry(kind, to, id) == [kind |-> kind, to |-> to, id |-> id]

\* Variant of generateImportBlocks that emits an import block for every
\* repository of the list.
generateImportBlocks_AllRepos(rs, ts) ==
  LET fresh == SelectSeq(rs, LAMBDA r : r.action = "create-fresh")
  IN  << Entry("header", <<>>, <<>>), Entry("generatedAt", <<>>, <<"ts", ts>>) >>
      \o [k \in 1..Len(rs) |->
            Entry("import", ResourceName(rs[k].repo), RepoName(rs[k].repo))]
      \o (IF Len(fresh) > 0 THEN << Entry("freshHeader", <<>>, <<>>) >> ELSE <<>>)
      \o [k \in 1..Len(fresh) |-> Entry("comment", <<>>, RepoName(fresh[k].repo))]

\* Variant of generateImportBlocks that also stamps the generation time into
\* every import block.
generateImportBlocks_StampedBlocks(rs, ts) ==
  LET forks == SelectSeq(rs, LAMBDA r : r.action = "fork")
      fresh == SelectSeq(rs, LAMBDA r : r.action = "create-fresh")
  IN  << Entry("header", <<>>, <<>>), Entry("generatedAt", <<>>, <<"ts", ts>>) >>
      \o [k \in 1..Len(forks) |->
            Entry("import", <<"ts", ts>>, RepoName(forks[k].repo))]
      \o (IF Len(fresh) > 0 THEN << Entry("freshHeader", <<>>, <<>>) >> ELSE <<>>)
      \o [k \in 1..Len(fresh) |-> Entry("comment", <<>>, RepoName(fresh[k].repo))]

\* generateImportBlocks(repos): the header lines with the timestamp, one
\* import block (to = github_repository.<resourceName>, id = "<name>") per
\* fork repo in list order, then, when there is a create-fresh repo, a
\* heading line and one comment line "#   - <name>" per create-fresh repo.
generateImportBlocks(rs, ts) ==
  LET forks == SelectSeq(rs, LAMBDA r : r.action = "fork")
      fresh == SelectSeq(rs, LAMBDA r : r.action = "create-fresh")
  IN  << Entry("header", <<>>, <<>>), Entry("generatedAt", <<>>, <<"ts", ts>>) >>
      \o [k \in 1..Len(forks) |->
            Entry("import", ResourceName(forks[k].repo), RepoName(forks[k].repo))]
      \o (IF Len(fresh) > 0 THEN << Entry("freshHeader", <<>>, <<>>) >> ELSE <<>>)
      \o [k \in 1..Len(fresh) |-> Entry("comment", <<>>, RepoName(fresh[k].repo))]

\* Names a descriptor can carry; the last one never occurs in a snapshot.
Names == 1..(MaxRepos + 1)

\* cdk.tf.json: valid JSON or not, with or without the resource section and
\* the github_repository collection in it, and the names in that collection.
Snapshot(valid, hasResource, hasRepos, names) ==
  [valid |-> valid, resource |-> hasResource, github_repository |-> hasRepos,
   names |-> names]
Snapshots ==
  {Snapshot(FALSE, FALSE, FALSE, <<>>), Snapshot(TRUE, FALSE, FALSE, <<>>),
   Snapshot(TRUE, TRUE, FALSE, <<>>)}
  \cup {Snapshot(TRUE, TRUE, TRUE, [k \in 1..m |-> k]) : m \in 0..MaxRepos}

\* parseCdkTfJson: const githubRepos = cdkTfJson.resource?.github_repository || {}
\* and one descriptor per entry of it.
parseCdkTfJson(cdkTfJson) ==
  IF cdkTfJson.resource /\ cdkTfJson.github_repository THEN cdkTfJson.names ELSE <<>>

\* Variant of filterRepositories whose whitelist applies to every given list,
\* the empty one included.
filterRepositories_WhitelistEmpty(rs, only, exclude) ==
  LET whitelisted ==
        IF only # {}
          THEN SelectSeq(rs, LAMBDA r : r \in (CHOOSE X \in only : TRUE))
          ELSE rs
  IN  IF exclude # {}
        THEN SelectSeq(whitelisted, LAMBDA r : r \notin exclude)
        ELSE whitelisted

\* filterRepositories(repos, onlyRepos, excludeRepos): onlyRepos is {} for
\* null and {X} for a list X; the whitelist applies when the list is given and
\* not empty, the blacklist when it is not empty.
filterRepositories(rs, only, exclude) ==
  LET whitelisted ==
        IF only # {} /\ (CHOOSE X \in only : TRUE) # {}
          THEN SelectSeq(rs, LAMBDA r : r \in (CHOOSE X \in only : TRUE))
          ELSE rs
  IN  IF exclude # {}
        THEN SelectSeq(whitelisted, LAMBDA r : r \notin exclude)
        ELSE whitelisted

\* The pure-function variables while no pure function is under check.
PureIdle == fin = <<>> /\ fout = <<>> /\ fpc = "idle"

Init ==
  /\ variant \in {"independent", "fork"}
  /\ dryRun \in BOOLEAN
  /\ n \in 0..MaxRepos
  /\ srcOrg \in [Repos -> BOOLEAN]
  /\ tgt \in [Repos -> {Absent, Present}]
  /\ \A r \in Repos : r > n => (~srcOrg[r] /\ tgt[r] = Absent)
  /\ pc = "filtered"
  /\ i = 1
  /\ attempts = 0
  /\ results = <<>>
  /\ hasConflicts = FALSE
  /\ steps = [r \in Repos |-> <<>>]
  /\ failed = [r \in Repos |-> {}]
  /\ started = <<>>
  /\ err = "none"
  /\ failedRepo = 0
  /\ delays = 0
  /\ artifact = <<>>
  /\ exitCode = -1
  /\ cwd = "orig"
  /\ tempDir = FALSE
  /\ probeErr = FALSE
  /\ waited = 0
  /\ stackDir = TRUE
  /\ onlyRepos = {}
  /\ excludeRepos = {}
  /\ dirExists = TRUE
  /\ fileExists = TRUE
  /\ snapshot = Snapshot(TRUE, TRUE, TRUE, [k \in 1..n |-> k])
  /\ repos = [k \in 1..n |-> k]
  /\ filteredRepos = [k \in 1..n |-> k]
  /\ snapshotRead = TRUE
  /\ rerun = FirstRun
  /\ PureIdle

\* if (filteredRepos.length === 0) process.exit(0)
EmptyFilterExit ==
  /\ pc = "filtered"
  /\ n = 0
  /\ pc' = "exit"
  /\ exitCode' = 0
  /\ UNCHANGED <<startup, pure, cwd, tempDir, probeErr, waited, variant, dryRun, n, srcOrg, tgt, i, attempts, results, hasConflicts,
                 steps, failed, started, err, failedRepo, delays, artifact>>

\* Variant of BeginProbing that enters the probing loop with an empty list.
BeginProbing_NoGuard ==
  /\ pc = "filtered"
  /\ pc' = "probe"
  /\ i' = 1
  /\ UNCHANGED <<startup, pure, cwd, tempDir, probeErr, waited, variant, dryRun, n, srcOrg, tgt, attempts, results, hasConflicts,
                 steps, failed, started, err, failedRepo, delays, artifact, exitCode>>

\* filteredRepos.length > 0: the run goes on to the probing loop.
BeginProbing ==
  /\ pc = "filtered"
  /\ n > 0
  /\ pc' = "probe"
  /\ i' = 1
  /\ UNCHANGED <<startup, pure, cwd, tempDir, probeErr, waited, variant, dryRun, n, srcOrg, tgt, attempts, results, hasConflicts,
                 steps, failed, started, err, failedRepo, delays, artifact, exitCode>>

\* checkSourceRepo / checkTargetRepo: true iff the gh api call succeeds; any
\* failure of the call (absent repository or other error) returns false.
\* callOk = FALSE is a call that fails for a reason other than absence
\* (authentication, network, rate limit), whether the repository exists or not.
checkSourceRepo(r, callOk) == srcOrg[r] /\ callOk
checkTargetRepo(r, callOk) == tgt[r].exists /\ callOk

\* Variant of ProbeRepo that leaves the probing loop after the first
\* descriptor.
ProbeRepo_StopsEarly ==
  /\ pc = "probe"
  /\ \E sOk \in BOOLEAN, tOk \in BOOLEAN :
       LET sourceExists == checkSourceRepo(i, sOk)
           targetExists == checkTargetRepo(i, tOk)
       IN  /\ probeErr' = (probeErr \/ ~tOk)
           /\ hasConflicts' = (hasConflicts \/ targetExists)
           /\ results' = Append(results,
                 [repo |-> i, sourceExists |-> sourceExists, targetExists |-> targetExists,
                  action |-> IF sourceExists THEN "fork" ELSE "create-fresh"])
  /\ i' = 1 /\ pc' = "checked"
  /\ UNCHANGED <<startup, pure, cwd, tempDir, waited, variant, dryRun, n, srcOrg, tgt, attempts, steps, failed, started,
                 err, failedRepo, delays, artifact, exitCode>>

\* Variant of ProbeRepo that records only the repositories found in the
\* source organization.
ProbeRepo_NoRecordForFresh ==
  /\ pc = "probe"
  /\ \E sOk \in BOOLEAN, tOk \in BOOLEAN :
       LET sourceExists == checkSourceRepo(i, sOk)
           targetExists == checkTargetRepo(i, tOk)
       IN  /\ probeErr' = (probeErr \/ ~tOk)
           /\ hasConflicts' = (hasConflicts \/ targetExists)
           /\ results' = IF sourceExists
                           THEN Append(results,
                                  [repo |-> i, sourceExists |-> sourceExists,
                                   targetExists |-> targetExists, action |-> "fork"])
                           ELSE results
  /\ IF i < n THEN i' = i + 1 /\ pc' = "probe"
              ELSE i' = 1 /\ pc' = "checked"
  /\ UNCHANGED <<startup, pure, cwd, tempDir, waited, variant, dryRun, n, srcOrg, tgt, attempts, steps, failed, started,
                 err, failedRepo, delays, artifact, exitCode>>

\* Variant of ProbeRepo that derives the action from targetExists.
ProbeRepo_ActionFromTarget ==
  /\ pc = "probe"
  /\ \E sOk \in BOOLEAN, tOk \in BOOLEAN :
       LET sourceExists == checkSourceRepo(i, sOk)
           targetExists == checkTargetRepo(i, tOk)
       IN  /\ probeErr' = (probeErr \/ ~tOk)
           /\ hasConflicts' = (hasConflicts \/ targetExists)
           /\ results' = Append(results,
                 [repo |-> i, sourceExists |-> sourceExists, targetExists |-> targetExists,
                  action |-> IF targetExists THEN "create-fresh" ELSE "fork"])
  /\ IF i < n THEN i' = i + 1 /\ pc' = "probe"
              ELSE i' = 1 /\ pc' = "checked"
  /\ UNCHANGED <<startup, pure, cwd, tempDir, waited, variant, dryRun, n, srcOrg, tgt, attempts, steps, failed, started,
                 err, failedRepo, delays, artifact, exitCode>>

\* One iteration of the probing loop of main().
ProbeRepo ==
  /\ pc = "probe"
  /\ \E sOk \in BOOLEAN, tOk \in BOOLEAN :
       LET sourceExists == checkSourceRepo(i, sOk)
           targetExists == checkTargetRepo(i, tOk)
       IN  /\ probeErr' = (probeErr \/ ~tOk)
           /\ hasConflicts' = (hasConflicts \/ targetExists)
           /\ results' = Append(results,
                 [repo |-> i, sourceExists |-> sourceExists, targetExists |-> targetExists,
                  action |-> IF sourceExists THEN "fork" ELSE "create-fresh"])
  /\ IF i < n THEN i' = i + 1 /\ pc' = "probe"
              ELSE i' = 1 /\ pc' = "checked"
  /\ UNCHANGED <<startup, pure, cwd, tempDir, waited, variant, dryRun, n, srcOrg, tgt, attempts, steps, failed, started,
                 err, failedRepo, delays, artifact, exitCode>>

\* if (hasConflicts) process.exit(1)
ConflictExit ==
  /\ pc = "checked"
  /\ hasConflicts
  /\ pc' = "exit"
  /\ exitCode' = 1
  /\ UNCHANGED <<startup, pure, cwd, tempDir, probeErr, waited, variant, dryRun, n, srcOrg, tgt, i, attempts, results, hasConflicts,
                 steps, failed, started, err, failedRepo, delays, artifact>>

\* Variant of StartExecute that does not stop on hasConflicts.
StartExecute_NoConflictCheck ==
  /\ pc = "checked"
  /\ IF dryRun \/ Len(toFork) = 0
       THEN pc' = "artifact"
       ELSE pc' = (IF variant = "independent" THEN "create" ELSE "fork")
  /\ i' = 1
  /\ UNCHANGED <<startup, pure, cwd, tempDir, probeErr, waited, variant, dryRun, n, srcOrg, tgt, attempts, results, hasConflicts,
                 steps, failed, started, err, failedRepo, delays, artifact, exitCode>>

\* Variant of StartExecute that enters the loop without testing dryRun.
StartExecute_IgnoreDryRun ==
  /\ pc = "checked"
  /\ ~hasConflicts
  /\ IF Len(toFork) = 0
       THEN pc' = "artifact"
       ELSE pc' = (IF variant = "independent" THEN "create" ELSE "fork")
  /\ i' = 1
  /\ UNCHANGED <<startup, pure, cwd, tempDir, probeErr, waited, variant, dryRun, n, srcOrg, tgt, attempts, results, hasConflicts,
                 steps, failed, started, err, failedRepo, delays, artifact, exitCode>>

\* if (!dryRun) { toFork = ...; if (toFork.length === 0) ... else for (...) }
StartExecute ==
  /\ pc = "checked"
  /\ ~hasConflicts
  /\ IF dryRun \/ Len(toFork) = 0
       THEN pc' = "artifact"
       ELSE pc' = (IF variant = "independent" THEN "create" ELSE "fork")
  /\ i' = 1
  /\ UNCHANGED <<startup, pure, cwd, tempDir, probeErr, waited, variant, dryRun, n, srcOrg, tgt, attempts, results, hasConflicts,
                 steps, failed, started, err, failedRepo, delays, artifact, exitCode>>

Step(r, s) == [steps EXCEPT ![r] = Append(@, s)]
Fail(r, s) == [failed EXCEPT ![r] = @ \cup {s}]

\* createEmptyRepository: gh repo create cdktn-io/<name> --public
CreateRepo ==
  /\ pc = "create"
  /\ steps' = Step(CurRepo, "create")
  /\ started' = Append(started, CurRepo)
  /\ attempts' = 0
  /\ waited' = 0
  /\ \E ok \in BOOLEAN :
       IF ok /\ ~tgt[CurRepo].exists
         THEN /\ tgt' = [tgt EXCEPT ![CurRepo] =
                    [exists |-> TRUE, actions |-> TRUE, history |-> FALSE, fixed |-> FALSE]]
              /\ pc' = "poll"
              /\ UNCHANGED <<failed, err, failedRepo>>
         ELSE /\ failed' = Fail(CurRepo, "create")
              /\ err' = "create"
              /\ failedRepo' = CurRepo
              /\ pc' = "cleanup"
              /\ UNCHANGED tgt
  /\ UNCHANGED <<startup, pure, cwd, tempDir, probeErr, variant, dryRun, n, srcOrg, i, results, hasConflicts, delays,
                 artifact, exitCode>>

\* Variant of PollCreated that goes on to the history transfer without
\* disabling workflows.
PollCreated_SkipDisable ==
  /\ pc = "poll"
  /\ attempts < CreateMaxAttempts
  /\ \E ok \in BOOLEAN :
       IF ok
         THEN /\ pc' = "hist_clone"
              /\ attempts' = 0
              /\ waited' = 0
              /\ UNCHANGED <<failed, err, failedRepo>>
         ELSE /\ attempts' = attempts + 1
              /\ waited' = waited + PollIntervalMs
              /\ IF attempts + 1 < CreateMaxAttempts
                   THEN pc' = "poll" /\ UNCHANGED <<failed, err, failedRepo>>
                   ELSE /\ pc' = "cleanup"
                        /\ failed' = Fail(CurRepo, "poll")
                        /\ err' = "timeout"
                        /\ failedRepo' = CurRepo
  /\ UNCHANGED <<startup, pure, cwd, tempDir, probeErr, variant, dryRun, n, srcOrg, tgt, i, results, hasConflicts, steps,
                 started, delays, artifact, exitCode>>

\* Variant of PollCreated whose loop test is attempts <= maxAttempts.
PollCreated_OffByOne ==
  /\ pc = "poll"
  /\ attempts <= CreateMaxAttempts
  /\ \E ok \in BOOLEAN :
       IF ok
         THEN /\ pc' = "disable"
              /\ attempts' = 0
              /\ waited' = 0
              /\ UNCHANGED <<failed, err, failedRepo>>
         ELSE /\ attempts' = attempts + 1
              /\ waited' = waited + PollIntervalMs
              /\ IF attempts + 1 <= CreateMaxAttempts
                   THEN pc' = "poll" /\ UNCHANGED <<failed, err, failedRepo>>
                   ELSE /\ pc' = "cleanup"
                        /\ failed' = Fail(CurRepo, "poll")
                        /\ err' = "timeout"
                        /\ failedRepo' = CurRepo
  /\ UNCHANGED <<startup, pure, cwd, tempDir, probeErr, variant, dryRun, n, srcOrg, tgt, i, results, hasConflicts, steps,
                 started, delays, artifact, exitCode>>

\* createEmptyRepository: one iteration of the polling loop; the loop ends
\* with a timeout error once attempts reaches maxAttempts.
PollCreated ==
  /\ pc = "poll"
  /\ attempts < CreateMaxAttempts
  /\ \E ok \in BOOLEAN :
       IF ok
         THEN /\ pc' = "disable"
              /\ attempts' = 0
              /\ waited' = 0
              /\ UNCHANGED <<failed, err, failedRepo>>
         ELSE /\ attempts' = attempts + 1
              /\ waited' = waited + PollIntervalMs
              /\ IF attempts + 1 < CreateMaxAttempts
                   THEN pc' = "poll" /\ UNCHANGED <<failed, err, failedRepo>>
                   ELSE /\ pc' = "cleanup"
                        /\ failed' = Fail(CurRepo, "poll")
                        /\ err' = "timeout"
                        /\ failedRepo' = CurRepo
  /\ UNCHANGED <<startup, pure, cwd, tempDir, probeErr, variant, dryRun, n, srcOrg, tgt, i, results, hasConflicts, steps,
                 started, delays, artifact, exitCode>>

\* disableGitHubActions: a failure is logged and swallowed.
DisableActions ==
  /\ pc = "disable"
  /\ steps' = Step(CurRepo, "disable")
  /\ \E ok \in BOOLEAN :
       IF ok
         THEN /\ tgt' = [tgt EXCEPT ![CurRepo].actions = FALSE]
              /\ UNCHANGED failed
         ELSE /\ failed' = Fail(CurRepo, "disable")
              /\ UNCHANGED tgt
  /\ pc' = "hist_clone"
  /\ UNCHANGED <<startup, pure, cwd, tempDir, probeErr, waited, variant, dryRun, n, srcOrg, i, attempts, results, hasConflicts,
                 started, err, failedRepo, delays, artifact, exitCode>>

\* migrateRepositoryHistory: bare clone of the source and git remote add.
HistClone ==
  /\ pc = "hist_clone"
  /\ steps' = Step(CurRepo, "histClone")
  /\ \E ok \in BOOLEAN :
       IF ok
         THEN /\ pc' = "hist_push"
              /\ cwd' = "repo.git"
              /\ tempDir' = TRUE
              /\ UNCHANGED <<failed, err, failedRepo>>
         ELSE /\ failed' = Fail(CurRepo, "histClone")
              /\ err' = "histClone"
              /\ failedRepo' = CurRepo
              /\ pc' = "cleanup"
              /\ cwd' = "orig"
              /\ tempDir' = FALSE
  /\ UNCHANGED <<startup, pure, probeErr, waited, variant, dryRun, n, srcOrg, tgt, i, attempts, results, hasConflicts,
                 started, delays, artifact, exitCode>>

\* Variant of HistPush whose cleanup runs after the push instead of in a
\* finally block, so a failed push skips it.
HistPush_NoFinally ==
  /\ pc = "hist_push"
  /\ steps' = Step(CurRepo, "mirrorPush")
  /\ \E ok \in BOOLEAN :
       IF ok
         THEN /\ tgt' = [tgt EXCEPT ![CurRepo].history = TRUE]
              /\ pc' = "fix_clone"
              /\ cwd' = "orig"
              /\ tempDir' = FALSE
              /\ UNCHANGED <<failed, err, failedRepo>>
         ELSE /\ failed' = Fail(CurRepo, "mirrorPush")
              /\ err' = "mirrorPush"
              /\ failedRepo' = CurRepo
              /\ pc' = "cleanup"
              /\ UNCHANGED <<tgt, cwd, tempDir>>
  /\ UNCHANGED <<startup, pure, probeErr, waited, variant, dryRun, n, srcOrg, i, attempts, results, hasConflicts,
                 started, delays, artifact, exitCode>>

\* migrateRepositoryHistory: git push --mirror cdktn-io
HistPush ==
  /\ pc = "hist_push"
  /\ steps' = Step(CurRepo, "mirrorPush")
  /\ cwd' = "orig"
  /\ tempDir' = FALSE
  /\ \E ok \in BOOLEAN :
       IF ok
         THEN /\ tgt' = [tgt EXCEPT ![CurRepo].history = TRUE]
              /\ pc' = "fix_clone"
              /\ UNCHANGED <<failed, err, failedRepo>>
         ELSE /\ failed' = Fail(CurRepo, "mirrorPush")
              /\ err' = "mirrorPush"
              /\ failedRepo' = CurRepo
              /\ pc' = "cleanup"
              /\ UNCHANGED tgt
  /\ UNCHANGED <<startup, pure, probeErr, waited, variant, dryRun, n, srcOrg, i, attempts, results, hasConflicts,
                 started, delays, artifact, exitCode>>

\* Variant of Cleanup that rethrows without attempting the deletion.
Cleanup_NoDelete ==
  /\ pc = "cleanup"
  /\ pc' = "abort"
  /\ UNCHANGED <<startup, pure, cwd, tempDir, probeErr, waited, variant, dryRun, n, srcOrg, tgt, i, attempts, results, hasConflicts,
                 steps, failed, started, err, failedRepo, delays, artifact, exitCode>>

\* Variant of Cleanup in which a failed deletion throws, so the deletion error
\* replaces the original one.
Cleanup_ThrowsDeleteError ==
  /\ pc = "cleanup"
  /\ steps' = Step(CurRepo, "delete")
  /\ \E ok \in BOOLEAN :
       IF ok /\ tgt[CurRepo].exists
         THEN /\ tgt' = [tgt EXCEPT ![CurRepo] = Absent]
              /\ UNCHANGED <<failed, err>>
         ELSE /\ failed' = Fail(CurRepo, "delete")
              /\ err' = "delete"
              /\ UNCHANGED tgt
  /\ pc' = "abort"
  /\ UNCHANGED <<startup, pure, cwd, tempDir, probeErr, waited, variant, dryRun, n, srcOrg, i, attempts, results, hasConflicts,
                 started, failedRepo, delays, artifact, exitCode>>

\* createIndependentRepository, catch block: gh repo delete (its own failure is
\* swallowed), then the original error is rethrown.
Cleanup ==
  /\ pc = "cleanup"
  /\ steps' = Step(CurRepo, "delete")
  /\ \E ok \in BOOLEAN :
       IF ok /\ tgt[CurRepo].exists
         THEN /\ tgt' = [tgt EXCEPT ![CurRepo] = Absent]
              /\ UNCHANGED failed
         ELSE /\ failed' = Fail(CurRepo, "delete")
              /\ UNCHANGED tgt
  /\ pc' = "abort"
  /\ UNCHANGED <<startup, pure, cwd, tempDir, probeErr, waited, variant, dryRun, n, srcOrg, i, attempts, results, hasConflicts,
                 started, err, failedRepo, delays, artifact, exitCode>>

\* Variant of MigrationFailed that goes on with the next repository.
MigrationFailed_Continue ==
  /\ pc = "abort"
  /\ IF i < Len(toFork)
       THEN /\ i' = i + 1
            /\ pc' = (IF variant = "independent" THEN "create" ELSE "fork")
            /\ UNCHANGED exitCode
       ELSE /\ pc' = "exit"
            /\ exitCode' = 1
            /\ UNCHANGED i
  /\ UNCHANGED <<startup, pure, cwd, tempDir, probeErr, waited, variant, dryRun, n, srcOrg, tgt, attempts, results, hasConflicts,
                 steps, failed, started, err, failedRepo, delays, artifact>>

\* Variant of MigrationFailed that ends the process with code 0.
MigrationFailed_ExitZero ==
  /\ pc = "abort"
  /\ pc' = "exit"
  /\ exitCode' = 0
  /\ UNCHANGED <<startup, pure, cwd, tempDir, probeErr, waited, variant, dryRun, n, srcOrg, tgt, i, attempts, results, hasConflicts,
                 steps, failed, started, err, failedRepo, delays, artifact>>

\* Variant of MigrationFailed that leaves the loop and falls through to the
\* artifact step instead of ending the process.
MigrationFailed_FallsThrough ==
  /\ pc = "abort"
  /\ pc' = "artifact"
  /\ UNCHANGED <<startup, pure, cwd, tempDir, probeErr, waited, variant, dryRun, n, srcOrg, tgt, i, attempts, results, hasConflicts,
                 steps, failed, started, err, failedRepo, delays, artifact, exitCode>>

\* main(), catch block of the loop: process.exit(1)
MigrationFailed ==
  /\ pc = "abort"
  /\ pc' = "exit"
  /\ exitCode' = 1
  /\ UNCHANGED <<startup, pure, cwd, tempDir, probeErr, waited, variant, dryRun, n, srcOrg, tgt, i, attempts, results, hasConflicts,
                 steps, failed, started, err, failedRepo, delays, artifact>>

\* fixTeamNames: mktemp, chdir and gh repo clone of the new repository; any
\* failure is caught by the outer catch of fixTeamNames.
FixClone ==
  /\ pc = "fix_clone"
  /\ steps' = Step(CurRepo, "fixClone")
  /\ \E ok \in BOOLEAN :
       IF ok
         THEN /\ pc' = "fix_rewrite"
              /\ cwd' = "temp"
              /\ tempDir' = TRUE
              /\ UNCHANGED failed
         ELSE /\ pc' = "enable"
              /\ cwd' = "orig"
              /\ tempDir' = FALSE
              /\ failed' = Fail(CurRepo, "fixClone")
  /\ UNCHANGED <<startup, pure, probeErr, waited, variant, dryRun, n, srcOrg, tgt, i, attempts, results, hasConflicts,
                 started, err, failedRepo, delays, artifact, exitCode>>

\* Variant of FixRewrite whose early return leaves the loop body, skipping
\* the re-enable call.
FixRewrite_SkipEnable ==
  /\ pc = "fix_rewrite"
  /\ \E outcome \in {"noWorkflows", "noChanges", "changed"}, fileError \in BOOLEAN :
       /\ pc' = (IF outcome = "changed" THEN "fix_commit"
                 ELSE IF i < Len(toFork) THEN "delay" ELSE "artifact")
       /\ cwd' = (IF outcome = "changed" THEN cwd ELSE "orig")
       /\ tempDir' = (IF outcome = "changed" THEN tempDir ELSE FALSE)
       /\ failed' = (IF fileError THEN Fail(CurRepo, "fixRewrite") ELSE failed)
  /\ UNCHANGED <<startup, pure, probeErr, waited, variant, dryRun, n, srcOrg, tgt, i, attempts, results, hasConflicts,
                 steps, started, err, failedRepo, delays, artifact, exitCode>>

\* fixTeamNames: the rewrite of CODEOWNERS and of the workflow files; it
\* returns early without workflow files or with filesChanged === 0.  A file
\* that cannot be read or written is skipped by the inner catch blocks and
\* the rewrite goes on with the other files.
FixRewrite ==
  /\ pc = "fix_rewrite"
  /\ \E outcome \in {"noWorkflows", "noChanges", "changed"}, fileError \in BOOLEAN :
       /\ pc' = (IF outcome = "changed" THEN "fix_commit" ELSE "enable")
       /\ cwd' = (IF outcome = "changed" THEN cwd ELSE "orig")
       /\ tempDir' = (IF outcome = "changed" THEN tempDir ELSE FALSE)
       /\ failed' = (IF fileError THEN Fail(CurRepo, "fixRewrite") ELSE failed)
  /\ UNCHANGED <<startup, pure, probeErr, waited, variant, dryRun, n, srcOrg, tgt, i, attempts, results, hasConflicts,
                 steps, started, err, failedRepo, delays, artifact, exitCode>>

\* fixTeamNames: git config, git add, git commit
FixCommit ==
  /\ pc = "fix_commit"
  /\ \E ok \in BOOLEAN :
       IF ok
         THEN /\ pc' = "fix_push"
              /\ UNCHANGED <<failed, cwd, tempDir>>
         ELSE /\ pc' = "enable"
              /\ cwd' = "orig"
              /\ tempDir' = FALSE
              /\ failed' = Fail(CurRepo, "fixCommit")
  /\ UNCHANGED <<startup, pure, probeErr, waited, variant, dryRun, n, srcOrg, tgt, i, attempts, results, hasConflicts,
                 steps, started, err, failedRepo, delays, artifact, exitCode>>

\* Variant of FixPush whose failure propagates out of fixTeamNames.
FixPush_Throws ==
  /\ pc = "fix_push"
  /\ steps' = Step(CurRepo, "fixPush")
  /\ cwd' = "orig"
  /\ tempDir' = FALSE
  /\ \E ok \in BOOLEAN :
       IF ok
         THEN /\ tgt' = [tgt EXCEPT ![CurRepo].fixed = TRUE]
              /\ pc' = "enable"
              /\ UNCHANGED <<failed, err, failedRepo>>
         ELSE /\ failed' = Fail(CurRepo, "fixPush")
              /\ err' = "fixPush"
              /\ failedRepo' = CurRepo
              /\ pc' = "abort"
              /\ UNCHANGED tgt
  /\ UNCHANGED <<startup, pure, probeErr, waited, variant, dryRun, n, srcOrg, i, attempts, results, hasConflicts,
                 started, delays, artifact, exitCode>>

\* fixTeamNames: git push origin main
FixPush ==
  /\ pc = "fix_push"
  /\ steps' = Step(CurRepo, "fixPush")
  /\ cwd' = "orig"
  /\ tempDir' = FALSE
  /\ \E ok \in BOOLEAN :
       IF ok
         THEN /\ tgt' = [tgt EXCEPT ![CurRepo].fixed = TRUE]
              /\ UNCHANGED failed
         ELSE /\ failed' = Fail(CurRepo, "fixPush")
              /\ UNCHANGED tgt
  /\ pc' = "enable"
  /\ UNCHANGED <<startup, pure, probeErr, waited, variant, dryRun, n, srcOrg, i, attempts, results, hasConflicts,
                 started, err, failedRepo, delays, artifact, exitCode>>

\* Variant of EnableActions whose call is not awaited: it returns while the
\* next repository is already in progress, modelled as the call of the
\* previous repository landing in the current iteration.
EnableActions_NotAwaited ==
  /\ pc = "enable"
  /\ LET r == IF i > 1 THEN toFork[i - 1].repo ELSE CurRepo
     IN  /\ steps' = Step(r, "enable")
         /\ \E ok \in BOOLEAN :
              IF ok
                THEN /\ tgt' = [tgt EXCEPT ![r].actions = TRUE]
                     /\ UNCHANGED failed
                ELSE /\ failed' = Fail(r, "enable")
                     /\ UNCHANGED tgt
  /\ pc' = (IF i < Len(toFork) THEN "delay" ELSE "artifact")
  /\ UNCHANGED <<startup, pure, cwd, tempDir, probeErr, waited, variant, dryRun, n, srcOrg, i, attempts, results, hasConflicts,
                 started, err, failedRepo, delays, artifact, exitCode>>

\* enableGitHubActions (a failure is logged and swallowed), then the test
\* i < toFork.length - 1 of the loop body.
EnableActions ==
  /\ pc = "enable"
  /\ steps' = Step(CurRepo, "enable")
  /\ \E ok \in BOOLEAN :
       IF ok
         THEN /\ tgt' = [tgt EXCEPT ![CurRepo].actions = TRUE]
              /\ UNCHANGED failed
         ELSE /\ failed' = Fail(CurRepo, "enable")
              /\ UNCHANGED tgt
  /\ pc' = (IF i < Len(toFork) THEN "delay" ELSE "artifact")
  /\ UNCHANGED <<startup, pure, cwd, tempDir, probeErr, waited, variant, dryRun, n, srcOrg, i, attempts, results, hasConflicts,
                 started, err, failedRepo, delays, artifact, exitCode>>

\* Variant of Delay that does not advance the loop index.
Delay_Repeat ==
  /\ pc = "delay"
  /\ delays' = delays + 1
  /\ pc' = (IF variant = "independent" THEN "create" ELSE "fork")
  /\ UNCHANGED <<startup, pure, cwd, tempDir, probeErr, waited, variant, dryRun, n, srcOrg, tgt, i, attempts, results, hasConflicts,
                 steps, failed, started, err, failedRepo, artifact, exitCode>>

\* Variant of Delay that waits twice.
Delay_Double ==
  /\ pc = "delay"
  /\ delays' = delays + 2
  /\ i' = i + 1
  /\ pc' = (IF variant = "independent" THEN "create" ELSE "fork")
  /\ UNCHANGED <<startup, pure, cwd, tempDir, probeErr, waited, variant, dryRun, n, srcOrg, tgt, attempts, results, hasConflicts,
                 steps, failed, started, err, failedRepo, artifact, exitCode>>

\* The fixed wait between repositories, then the next loop iteration.
Delay ==
  /\ pc = "delay"
  /\ delays' = delays + 1
  /\ i' = i + 1
  /\ pc' = (IF variant = "independent" THEN "create" ELSE "fork")
  /\ UNCHANGED <<startup, pure, cwd, tempDir, probeErr, waited, variant, dryRun, n, srcOrg, tgt, attempts, results, hasConflicts,
                 steps, failed, started, err, failedRepo, artifact, exitCode>>

\* forkRepository (fork variant): gh repo fork --org=cdktn-io --fork-name=...
\* A platform fork carries the history and has workflows disabled.
ForkRepo ==
  /\ pc = "fork"
  /\ steps' = Step(CurRepo, "fork")
  /\ started' = Append(started, CurRepo)
  /\ attempts' = 0
  /\ waited' = 0
  /\ \E ok \in BOOLEAN :
       IF ok /\ ~tgt[CurRepo].exists
         THEN /\ tgt' = [tgt EXCEPT ![CurRepo] =
                    [exists |-> TRUE, actions |-> FALSE, history |-> TRUE, fixed |-> FALSE]]
              /\ pc' = "fork_poll"
              /\ UNCHANGED <<failed, err, failedRepo>>
         ELSE /\ failed' = Fail(CurRepo, "fork")
              /\ err' = "fork"
              /\ failedRepo' = CurRepo
              /\ pc' = "abort"
              /\ UNCHANGED tgt
  /\ UNCHANGED <<startup, pure, cwd, tempDir, probeErr, variant, dryRun, n, srcOrg, i, results, hasConflicts, delays,
                 artifact, exitCode>>

\* forkRepository (fork variant): one iteration of the polling loop.
PollForked ==
  /\ pc = "fork_poll"
  /\ attempts < ForkMaxAttempts
  /\ \E ok \in BOOLEAN :
       IF ok
         THEN /\ pc' = (IF i < Len(toFork) THEN "delay" ELSE "artifact")
              /\ attempts' = 0
              /\ waited' = 0
              /\ UNCHANGED <<failed, err, failedRepo>>
         ELSE /\ attempts' = attempts + 1
              /\ waited' = waited + PollIntervalMs
              /\ IF attempts + 1 < ForkMaxAttempts
                   THEN pc' = "fork_poll" /\ UNCHANGED <<failed, err, failedRepo>>
                   ELSE /\ pc' = "abort"
                        /\ failed' = Fail(CurRepo, "poll")
                        /\ err' = "timeout"
                        /\ failedRepo' = CurRepo
  /\ UNCHANGED <<startup, pure, cwd, tempDir, probeErr, variant, dryRun, n, srcOrg, tgt, i, results, hasConflicts, steps,
                 started, delays, artifact, exitCode>>

\* fs.writeFileSync(importPath, generateImportBlocks(results)); main() returns.
WriteArtifact ==
  /\ pc = "artifact"
  /\ \E ts \in Clock : artifact' = generateImportBlocks(results, ts)
  /\ pc' = "done"
  /\ exitCode' = 0
  /\ UNCHANGED <<startup, pure, cwd, tempDir, probeErr, waited, variant, dryRun, n, srcOrg, tgt, i, attempts, results, hasConflicts,
                 steps, failed, started, err, failedRepo, delays>>

Next ==
  \/ EmptyFilterExit
  \/ BeginProbing
  \/ ProbeRepo
  \/ ConflictExit
  \/ StartExecute
  \/ CreateRepo
  \/ PollCreated
  \/ DisableActions
  \/ HistClone
  \/ HistPush
  \/ Cleanup
  \/ MigrationFailed
  \/ FixClone
  \/ FixRewrite
  \/ FixCommit
  \/ FixPush
  \/ EnableActions
  \/ Delay
  \/ ForkRepo
  \/ PollForked
  \/ WriteArtifact

Spec == Init /\ [][Next]_vars

\* ---- the start of the script: argument checks, snapshot, filter ----

pipeline == <<variant, dryRun, n, srcOrg, tgt, pc, i, attempts, results, hasConflicts,
              steps, failed, started, err, failedRepo, delays, artifact, exitCode,
              cwd, tempDir, probeErr, waited>>

\* The values --only= and --exclude= can take: split(',') never yields an
\* empty list, so a given flag carries at least one name.
OnlyValues == {{}} \cup {{X} : X \in (SUBSET Names) \ {{}}}
ExcludeValues == SUBSET Names

\* if (onlyRepos && excludeRepos.length > 0)
BothFilters == onlyRepos # {} /\ excludeRepos # {}

\* The state before the first statement of the script.  No repository
\* exists in the source organization, so every probed repository is
\* create-fresh; a repository is named by its position in filteredRepos from
\* the probing loop on.
InitStartup ==
  /\ stackDir \in BOOLEAN
  /\ onlyRepos \in OnlyValues
  /\ excludeRepos \in ExcludeValues
  /\ dirExists \in BOOLEAN
  /\ fileExists \in BOOLEAN
  /\ snapshot \in Snapshots
  /\ repos = <<>>
  /\ filteredRepos = <<>>
  /\ snapshotRead = FALSE
  /\ rerun = FirstRun
  /\ variant = "independent"
  /\ dryRun \in BOOLEAN
  /\ n = 0
  /\ srcOrg = [r \in Repos |-> FALSE]
  /\ tgt \in [Repos -> {Absent, Present}]
  /\ pc = "start"
  /\ i = 1
  /\ attempts = 0
  /\ results = <<>>
  /\ hasConflicts = FALSE
  /\ steps = [r \in Repos |-> <<>>]
  /\ failed = [r \in Repos |-> {}]
  /\ started = <<>>
  /\ err = "none"
  /\ failedRepo = 0
  /\ delays = 0
  /\ artifact = <<>>
  /\ exitCode = -1
  /\ cwd = "orig"
  /\ tempDir = FALSE
  /\ probeErr = FALSE
  /\ waited = 0
  /\ PureIdle

\* if (!stackDir) { usage; process.exit(1) }
UsageExit ==
  /\ pc = "start"
  /\ ~stackDir
  /\ pc' = "exit"
  /\ exitCode' = 1
  /\ UNCHANGED <<startup, pure, cwd, tempDir, probeErr, waited, variant, dryRun, n, srcOrg, tgt, i, attempts, results, hasConflicts,
                 steps, failed, started, err, failedRepo, delays, artifact>>

\* if (onlyRepos && excludeRepos.length > 0) process.exit(1)
MutexExit ==
  /\ pc = "start"
  /\ stackDir
  /\ BothFilters
  /\ pc' = "exit"
  /\ exitCode' = 1
  /\ UNCHANGED <<startup, pure, cwd, tempDir, probeErr, waited, variant, dryRun, n, srcOrg, tgt, i, attempts, results, hasConflicts,
                 steps, failed, started, err, failedRepo, delays, artifact>>

\* if (!fs.existsSync(stackDir)) process.exit(1)
DirMissingExit ==
  /\ pc = "start"
  /\ stackDir
  /\ ~BothFilters
  /\ ~dirExists
  /\ pc' = "exit"
  /\ exitCode' = 1
  /\ UNCHANGED <<startup, pure, cwd, tempDir, probeErr, waited, variant, dryRun, n, srcOrg, tgt, i, attempts, results, hasConflicts,
                 steps, failed, started, err, failedRepo, delays, artifact>>

\* if (!fs.existsSync(cdkTfJsonPath)) process.exit(1)
FileMissingExit ==
  /\ pc = "start"
  /\ stackDir
  /\ ~BothFilters
  /\ dirExists
  /\ ~fileExists
  /\ pc' = "exit"
  /\ exitCode' = 1
  /\ UNCHANGED <<startup, pure, cwd, tempDir, probeErr, waited, variant, dryRun, n, srcOrg, tgt, i, attempts, results, hasConflicts,
                 steps, failed, started, err, failedRepo, delays, artifact>>

\* Variant of EnterMain without the test of the two filter flags.
EnterMain_NoMutex ==
  /\ pc = "start"
  /\ stackDir
  /\ dirExists
  /\ fileExists
  /\ pc' = "main"
  /\ UNCHANGED <<startup, pure, cwd, tempDir, probeErr, waited, variant, dryRun, n, srcOrg, tgt, i, attempts, results, hasConflicts,
                 steps, failed, started, err, failedRepo, delays, artifact, exitCode>>

\* Every check of the module body passed: main() is called.
EnterMain ==
  /\ pc = "start"
  /\ stackDir
  /\ ~BothFilters
  /\ dirExists
  /\ fileExists
  /\ pc' = "main"
  /\ UNCHANGED <<startup, pure, cwd, tempDir, probeErr, waited, variant, dryRun, n, srcOrg, tgt, i, attempts, results, hasConflicts,
                 steps, failed, started, err, failedRepo, delays, artifact, exitCode>>

\* Variant of ReadSnapshot that rejects a document without the resource
\* section or without the repository collection.
ReadSnapshot_Validates ==
  /\ pc = "main"
  /\ snapshotRead' = TRUE
  /\ IF snapshot.valid /\ snapshot.resource /\ snapshot.github_repository
       THEN /\ repos' = parseCdkTfJson(snapshot)
            /\ pc' = "parsed"
            /\ UNCHANGED <<err, exitCode>>
       ELSE /\ err' = "json"
            /\ pc' = "exit"
            /\ exitCode' = 1
            /\ UNCHANGED repos
  /\ UNCHANGED <<stackDir, onlyRepos, excludeRepos, dirExists, fileExists, snapshot, filteredRepos, rerun>>
  /\ UNCHANGED <<pure, cwd, tempDir, probeErr, waited, variant, dryRun, n, srcOrg, tgt, i, attempts, results, hasConflicts,
                 steps, failed, started, failedRepo, delays, artifact>>

\* JSON.parse(fs.readFileSync(cdkTfJsonPath)) and parseCdkTfJson; a document
\* that does not parse throws, and main().catch exits with code 1.
ReadSnapshot ==
  /\ pc = "main"
  /\ snapshotRead' = TRUE
  /\ IF snapshot.valid
       THEN /\ repos' = parseCdkTfJson(snapshot)
            /\ pc' = "parsed"
            /\ UNCHANGED <<err, exitCode>>
       ELSE /\ err' = "json"
            /\ pc' = "exit"
            /\ exitCode' = 1
            /\ UNCHANGED repos
  /\ UNCHANGED <<stackDir, onlyRepos, excludeRepos, dirExists, fileExists, snapshot, filteredRepos, rerun>>
  /\ UNCHANGED <<pure, cwd, tempDir, probeErr, waited, variant, dryRun, n, srcOrg, tgt, i, attempts, results, hasConflicts,
                 steps, failed, started, failedRepo, delays, artifact>>

\* const filteredRepos = filterRepositories(repos, onlyRepos, excludeRepos)
FilterRepos ==
  /\ pc = "parsed"
  /\ filteredRepos' = filterRepositories(repos, onlyRepos, excludeRepos)
  /\ n' = Len(filteredRepos')
  /\ pc' = "filtered"
  /\ UNCHANGED <<stackDir, onlyRepos, excludeRepos, dirExists, fileExists, snapshot, repos, snapshotRead, rerun>>
  /\ UNCHANGED <<pure, cwd, tempDir, probeErr, waited, variant, dryRun, srcOrg, tgt, i, attempts, results, hasConflicts,
                 steps, failed, started, err, failedRepo, delays, artifact, exitCode>>

NextStartup ==
  \/ UsageExit
  \/ MutexExit
  \/ DirMissingExit
  \/ FileMissingExit
  \/ EnterMain
  \/ ReadSnapshot
  \/ FilterRepos
  \/ EmptyFilterExit
  \/ BeginProbing
  \/ ProbeRepo
  \/ ConflictExit
  \/ StartExecute
  \/ WriteArtifact

SpecStartup == InitStartup /\ [][NextStartup]_vars

\* ---- filterRepositories as a function of its arguments ----

\* Descriptor lists: the names of a snapshot's entries, in any order.
Lists == UNION {{s \in [1..m -> Names] : \A a, b \in 1..m : a # b => s[a] # s[b]} : m \in 0..MaxRepos}

\* The start of a run of the function: a descriptor list S and a selection X
\* of names; the script itself stands still.
InitFilter ==
  /\ fin \in {[S |-> S, X |-> X] : S \in Lists, X \in SUBSET Names}
  /\ fout = <<>>
  /\ fpc = "ready"
  /\ stackDir = TRUE
  /\ onlyRepos = {}
  /\ excludeRepos = {}
  /\ dirExists = TRUE
  /\ fileExists = TRUE
  /\ snapshot = Snapshot(TRUE, TRUE, TRUE, <<>>)
  /\ repos = <<>>
  /\ filteredRepos = <<>>
  /\ snapshotRead = FALSE
  /\ rerun = FirstRun
  /\ variant = "independent"
  /\ dryRun = TRUE
  /\ n = 0
  /\ srcOrg = [r \in Repos |-> FALSE]
  /\ tgt = [r \in Repos |-> Absent]
  /\ pc = "start"
  /\ i = 1
  /\ attempts = 0
  /\ results = <<>>
  /\ hasConflicts = FALSE
  /\ steps = [r \in Repos |-> <<>>]
  /\ failed = [r \in Repos |-> {}]
  /\ started = <<>>
  /\ err = "none"
  /\ failedRepo = 0
  /\ delays = 0
  /\ artifact = <<>>
  /\ exitCode = -1
  /\ cwd = "orig"
  /\ tempDir = FALSE
  /\ probeErr = FALSE
  /\ waited = 0

\* filterRepositories(S, X, []) and filterRepositories(S, null, X)
ApplyFilter ==
  /\ fpc = "ready"
  /\ fout' = [only |-> filterRepositories(fin.S, {fin.X}, {}),
              exclude |-> filterRepositories(fin.S, {}, fin.X)]
  /\ fpc' = "done"
  /\ UNCHANGED <<fin, startup, pipeline>>

NextFilter == ApplyFilter

SpecFilter == InitFilter /\ [][NextFilter]_vars

TypeOK ==
  /\ variant \in {"independent", "fork"}
  /\ dryRun \in BOOLEAN
  /\ n \in 0..MaxRepos
  /\ i \in 1..(MaxRepos + 1)
  /\ exitCode \in {-1, 0, 1}
  /\ failedRepo \in 0..MaxRepos

\* ---- helpers for the properties ----
Range(f) == {f[k] : k \in DOMAIN f}
IsPrefix(s, t) == Len(s) <= Len(t) /\ \A k \in 1..Len(s) : s[k] = t[k]
MutatingCalls(r) == SelectSeq(steps[r], LAMBDA s : s \in Mutating)
NoMutation == \A r \in Repos : MutatingCalls(r) = <<>> /\ steps[r] = <<>>
Conflict == \E k \in 1..Len(results) : results[k].targetExists
HasFork == \E k \in 1..Len(results) : results[k].action = "fork"
HasFresh == \E k \in 1..Len(results) : results[k].action = "create-fresh"
ForkOrder == [k \in 1..Len(toFork) |-> toFork[k].repo]
Pos(r) == CHOOSE k \in 1..Len(toFork) : toFork[k].repo = r
Completed(r) ==
  /\ r \in Range(started)
  /\ \E k \in 1..Len(toFork) :
       /\ toFork[k].repo = r
       /\ (k < i \/ (k = i /\ pc \in {"delay", "artifact", "done"}))
StructuralSteps == {"create", "poll", "histClone", "mirrorPush"}
FixSteps == {"fixClone", "fixRewrite", "fixCommit", "fixPush"}
FullWithFix == <<"create", "disable", "histClone", "mirrorPush", "fixClone", "fixPush", "enable">>
FullNoFix == <<"create", "disable", "histClone", "mirrorPush", "fixClone", "enable">>
Deletions(r) == Len(SelectSeq(steps[r], LAMBDA s : s = "delete"))

\* C1: once probing has reported targetExists = true for some filtered
\* descriptor, no mutating remote call has been or will be made for any
\* descriptor, the run never enters the migration or artifact phase, and
\* it can only end with exit code 1 -- with or without --yes.
C1_ConflictNoMutation ==
  Conflict =>
    /\ NoMutation
    /\ started = <<>>
    /\ pc \in {"probe", "checked", "exit"}
    /\ (pc = "exit" => exitCode = 1)
    /\ artifact = <<>>

C1_Witness ==
  /\ Conflict /\ HasFork /\ ~dryRun
  /\ pc = "exit" /\ exitCode = 1

\* C2: in a dry run (no --yes) no mutating remote call is ever made and no
\* target repository changes; the run only probes and writes the artifact.
C2_DryRunNoMutation ==
  dryRun =>
    /\ NoMutation
    /\ started = <<>>
    /\ pc \in {"filtered", "probe", "checked", "artifact", "done", "exit"}
    /\ \A r \in Repos : tgt[r] \in {Absent, Present}

C2_Witness ==
  /\ dryRun /\ HasFork
  /\ pc = "done" /\ artifact # <<>>

\* C3: fail-fast.  Once the migration of a repository has thrown, no step is
\* made for any later repository, the run can only end with exit code 1, and
\* every repository completed before it still exists in the target
\* organization and has not been touched by a deletion.
C3_FailFast ==
  failedRepo # 0 =>
    /\ pc \in {"cleanup", "abort", "exit"}
    /\ (pc = "exit" => exitCode = 1)
    /\ \A r \in Repos :
         /\ r > failedRepo => steps[r] = <<>>
         /\ (r < failedRepo /\ r \in Range(started)) =>
              (tgt[r].exists /\ "delete" \notin Range(steps[r]))

C3_Witness ==
  /\ failedRepo = 1 /\ Len(toFork) = 2
  /\ pc = "exit" /\ exitCode = 1
  /\ steps[2] = <<>>

C5_FixFailureContinues ==
  \A r \in Repos :
    (failed[r] \cap FixSteps # {}) =>
      /\ Deletions(r) = 0
      /\ failedRepo # r
      /\ \/ pc \in {"fix_commit", "fix_push", "enable"} /\ CurRepo = r
         \/ "enable" \in Range(steps[r])
      /\ ("enable" \in Range(steps[r]) /\ Pos(r) < Len(toFork)) =>
           \/ pc = "delay" /\ i = Pos(r)
           \/ pc = "create" /\ i = Pos(r) + 1
           \/ toFork[Pos(r) + 1].repo \in Range(started)

C5_Witness ==
  \E r \in Repos :
    /\ "fixPush" \in failed[r]
    /\ "enable" \in Range(steps[r])
    /\ Pos(r) < Len(toFork)
    /\ toFork[Pos(r) + 1].repo \in Range(started)

\* C6 (as stated): after a successful execute run every CreateFresh
\* descriptor had its repository created and its workflows disabled and
\* re-enabled.
C6_Original ==
  (pc = "done" /\ ~dryRun) =>
    \A k \in 1..Len(results) :
      results[k].action = "create-fresh" =>
        {"create", "disable", "enable"} \subseteq Range(steps[results[k].repo])

\* C6 (amended): no pipeline step at all is performed for a CreateFresh
\* descriptor: no repository is created, no workflow setting changed, no
\* history transferred, nothing rewritten; it only appears in the artifact
\* as a comment entry.
C6_FreshUntouched ==
  \A k \in 1..Len(results) :
    results[k].action = "create-fresh" =>
      /\ steps[results[k].repo] = <<>>
      /\ failed[results[k].repo] = {}
      /\ results[k].repo \notin Range(started)
      /\ tgt[results[k].repo] \in {Absent, Present}
      /\ artifact # <<>> =>
           Entry("comment", <<>>, RepoName(results[k].repo)) \in Range(artifact)

C6_Witness ==
  /\ pc = "done" /\ ~dryRun
  /\ HasFresh /\ HasFork
  /\ started # <<>>

\* C7 (as stated): in a successful execute run the creation sequence was
\* invoked exactly once for each filtered repository, in input order.
C7_Original ==
  (pc = "done" /\ ~dryRun) => started = [k \in 1..n |-> k]

\* C7 (amended): the creation sequence is invoked exactly once for each Fork
\* repository, in input order, and never for a CreateFresh repository; the
\* artifact is written only after the last one has finished.
C7_OncePerForkInOrder ==
  /\ IsPrefix(started, ForkOrder)
  /\ (pc \in {"artifact", "done"} /\ ~dryRun) =>
       /\ started = ForkOrder
       /\ \A r \in Range(started) : Completed(r)
  /\ artifact # <<>> => pc = "done"

C7_Witness ==
  /\ pc = "done" /\ ~dryRun
  /\ artifact # <<>>
  /\ started = <<1, 2>>

\* C8: on the Fork path the steps of one repository occur in the fixed order
\* create, disable workflows, history transfer, reference rewrite, re-enable
\* workflows; none is skipped while a later one runs, none runs twice, and a
\* compensating deletion, if any, is the very last step.
C8_FixedStepOrder ==
  variant = "independent" =>
    \A r \in Repos :
      LET S == SelectSeq(steps[r], LAMBDA s : s # "delete")
      IN  /\ IsPrefix(S, FullWithFix) \/ IsPrefix(S, FullNoFix)
          /\ Deletions(r) <= 1
          /\ Deletions(r) = 1 => steps[r][Len(steps[r])] = "delete"

C8_Witness ==
  /\ variant = "independent"
  /\ \E r \in Repos : steps[r] = FullWithFix /\ Completed(r)

\* C9: whenever the mirror push of history is about to be performed, workflow
\* execution on that target repository is disabled.
C9_PushOnlyWhenDisabled ==
  pc = "hist_push" => ~tgt[CurRepo].actions

\* C10 (as stated): every repository whose Fork migration completed got both
\* the re-enable call and the call granting PR-approval permission.
C10_Original ==
  \A r \in Repos :
    (variant = "independent" /\ Completed(r)) =>
      /\ "enable" \in Range(steps[r])
      /\ "approvePRs" \in Range(steps[r])

\* C10 (amended): for every repository whose migration completed in the
\* independent-repository pipeline the last step is the re-enable call, made
\* exactly once, and no call granting PR-approval permission is issued for any
\* repository.
C10_EnableIsFinalStep ==
  \A r \in Repos :
    /\ "approvePRs" \notin Range(steps[r])
    /\ (variant = "independent" /\ Completed(r)) =>
         /\ steps[r][Len(steps[r])] = "enable"
         /\ Len(SelectSeq(steps[r], LAMBDA s : s = "enable")) = 1

C10_Witness ==
  /\ variant = "independent"
  /\ pc = "done"
  /\ \E r \in Repos : Completed(r) /\ tgt[r].actions /\ tgt[r].history

MaxAttempts == IF variant = "independent" THEN CreateMaxAttempts ELSE ForkMaxAttempts

\* C11: existence polling is bounded.  Every failed probe adds one to the
\* attempts counter and one fixed wait of 2 seconds; the loop is left on the
\* first successful probe, after at most maxAttempts probes (10 after a
\* create, 30 after a fork); when every probe has failed the counter stands at
\* maxAttempts and a timeout error fails the repository's migration.
C11_PollingBounded ==
  /\ [](/\ attempts <= MaxAttempts
        /\ waited = attempts * PollIntervalMs
        /\ pc \in {"poll", "fork_poll"} => attempts < MaxAttempts
        /\ err # "timeout" => attempts < MaxAttempts
        /\ err = "timeout" =>
             /\ attempts = MaxAttempts
             /\ failedRepo # 0
             /\ "poll" \in failed[failedRepo]
             /\ pc \in {"cleanup", "abort", "exit"}
             /\ pc = "exit" => exitCode = 1)
  /\ [][(pc \in {"poll", "fork_poll"} /\ pc' = pc) =>
          (attempts' = attempts + 1 /\ waited' = waited + PollIntervalMs)]_vars

C11_Witness ==
  /\ variant = "independent"
  /\ err = "timeout"
  /\ attempts = CreateMaxAttempts
  /\ pc = "exit" /\ exitCode = 1

\* The positions inside migrateRepositoryHistory and fixTeamNames, between
\* the creation of the temporary directory and the finally block.
InsideTempStep == pc \in {"hist_push", "fix_rewrite", "fix_commit", "fix_push"}

\* C12: on every exit path of the history transfer and of the reference
\* rewriting (success, failed clone, failed push, early return, exception) the
\* temporary directory of the step is removed and the working directory is the
\* one the step started in; the directory exists, and is the working
\* directory, only inside the step.
C12_TempDirRemoved ==
  /\ ~InsideTempStep => (cwd = "orig" /\ ~tempDir)
  /\ InsideTempStep => (cwd # "orig" /\ tempDir)

C12_Witness ==
  /\ pc = "exit"
  /\ err = "mirrorPush"
  /\ failedRepo = 2
  /\ "fixPush" \in failed[1]
  /\ cwd = "orig" /\ ~tempDir

\* C13 (as stated): the existence checks are fail-closed.  Once the probe of
\* a target has failed for a reason other than the repository being absent,
\* the run issues no mutating call.
C13_FailClosed ==
  probeErr => NoMutation

\* The two results of a finished run of the function partition its input.
Partition ==
  /\ Range(fout.only) \cup Range(fout.exclude) = Range(fin.S)
  /\ Range(fout.only) \cap Range(fout.exclude) = {}

SectionMissing == snapshot.valid /\ ~(snapshot.resource /\ snapshot.github_repository)

\* Nothing outside the process has been probed, changed or written.
NoSideEffects == results = <<>> /\ NoMutation /\ started = <<>> /\ artifact = <<>>

\* C15 (as stated): extraction from a snapshot without the resource section
\* or without the repository collection fails with a validation error: the
\* run ends with exit code 1 and does not go on with an empty descriptor list.
C15_Original ==
  (snapshotRead /\ SectionMissing) => (pc = "exit" /\ exitCode = 1)

\* C15 (amended): a snapshot that parses but lacks the resource section or
\* the repository collection yields the empty descriptor list; the run goes
\* on to the filter and ends with exit code 0 without any probe, mutation or
\* artifact.  Only a snapshot that does not parse ends the run with exit
\* code 1, also without side effects.
C15_MissingSectionIsEmpty ==
  /\ (snapshotRead /\ SectionMissing) =>
       /\ repos = <<>> /\ filteredRepos = <<>>
       /\ pc \in {"parsed", "filtered", "exit"}
       /\ pc = "exit" => exitCode = 0
       /\ NoSideEffects
  /\ (snapshotRead /\ ~snapshot.valid) =>
       /\ pc = "exit" /\ exitCode = 1
       /\ NoSideEffects

C15_Witness ==
  /\ snapshotRead
  /\ snapshot.valid /\ ~snapshot.resource
  /\ pc = "exit" /\ exitCode = 0

\* C16: with both --only and --exclude the run ends with exit code 1 before
\* the snapshot is read and before any probe, mutation or artifact write.
C16_BothFiltersExit ==
  BothFilters =>
    /\ pc \in {"start", "exit"}
    /\ pc = "exit" => exitCode = 1
    /\ ~snapshotRead
    /\ repos = <<>>
    /\ NoSideEffects

C16_Witness ==
  /\ BothFilters
  /\ stackDir /\ dirExists /\ fileExists /\ snapshot.valid
  /\ pc = "exit" /\ exitCode = 1

\* filterRepositories has returned in this run.
FilterDone == snapshotRead /\ snapshot.valid /\ pc # "parsed"

\* C17: when filtering yields an empty descriptor list the run ends with exit
\* code 0; no probe and no mutating call is issued and no artifact is written.
C17_EmptyFilterExitsZero ==
  (FilterDone /\ filteredRepos = <<>>) =>
    /\ pc \in {"filtered", "exit"}
    /\ pc = "exit" => exitCode = 0
    /\ NoSideEffects
    /\ ~probeErr /\ ~hasConflicts

C17_Witness ==
  /\ FilterDone
  /\ repos # <<>>
  /\ filteredRepos = <<>>
  /\ pc = "exit" /\ exitCode = 0

\* C18: the state of every filtered descriptor is computed before the first
\* mutating call.  While the probing loop runs no repository has been
\* touched; once a mutating call has been issued every descriptor has its
\* probed state and the probing loop is over, so no probe follows a mutation.
C18_ProbeBeforeMutation ==
  /\ pc \in {"filtered", "probe", "checked"} => (NoMutation /\ started = <<>>)
  /\ ~NoMutation =>
       /\ Len(results) = n
       /\ \A k \in 1..n : results[k].repo = k
       /\ pc \notin {"filtered", "probe", "checked"}

C18_Witness ==
  /\ n = MaxRepos
  /\ Len(results) = n
  /\ \A r \in 1..n : steps[r] # <<>>

\* C19: every probed repository state has action = fork exactly when
\* sourceExists is true and create-fresh otherwise, and no step changes an
\* entry of results once the probing loop has appended it.
C19_ActionIffSourceExists ==
  /\ [](\A k \in 1..Len(results) :
          /\ results[k].action = "fork" <=> results[k].sourceExists
          /\ results[k].action = "create-fresh" <=> ~results[k].sourceExists)
  /\ [][/\ Len(results') >= Len(results)
        /\ \A k \in 1..Len(results) : results'[k] = results[k]]_vars

C19_Witness ==
  /\ pc = "done"
  /\ Len(started) = 1
  /\ \E k \in 1..Len(results) : results[k].action = "fork" /\ results[k].sourceExists
  /\ \E k \in 1..Len(results) : results[k].action = "create-fresh" /\ ~results[k].sourceExists

ImportBlocks == SelectSeq(artifact, LAMBDA e : e.kind = "import")
CommentEntries == SelectSeq(artifact, LAMBDA e : e.kind = "comment")
FreshResults == SelectSeq(results, LAMBDA r : r.action = "create-fresh")

\* C20: the written artifact holds exactly one import block per repository
\* with action fork, in the order of the list, each binding
\* github_repository.<resourceName> to that repository's target name, and
\* exactly one comment entry per create-fresh repository; no create-fresh
\* repository has an import block.
C20_ArtifactContent ==
  pc = "done" =>
    /\ Len(ImportBlocks) = Len(toFork)
    /\ \A k \in 1..Len(toFork) :
         /\ ImportBlocks[k].to = ResourceName(toFork[k].repo)
         /\ ImportBlocks[k].id = RepoName(toFork[k].repo)
    /\ Len(CommentEntries) = Len(FreshResults)
    /\ \A k \in 1..Len(FreshResults) :
         /\ CommentEntries[k].id = RepoName(FreshResults[k].repo)
         /\ \A e \in Range(ImportBlocks) :
              /\ e.id # RepoName(FreshResults[k].repo)
              /\ e.to # ResourceName(FreshResults[k].repo)

C20_Witness ==
  /\ pc = "done"
  /\ Len(ImportBlocks) = 1
  /\ Len(CommentEntries) = 1
  /\ ImportBlocks[1].id = RepoName(2)
  /\ CommentEntries[1].id = RepoName(1)

\* ---- pure functions of the script, each under its own specification ----

\* The script stands still while a pure function is under check.
ScriptIdle ==
  /\ stackDir = TRUE
  /\ onlyRepos = {}
  /\ excludeRepos = {}
  /\ dirExists = TRUE
  /\ fileExists = TRUE
  /\ snapshot = Snapshot(TRUE, TRUE, TRUE, <<>>)
  /\ repos = <<>>
  /\ filteredRepos = <<>>
  /\ snapshotRead = FALSE
  /\ rerun = FirstRun
  /\ variant = "independent"
  /\ dryRun = TRUE
  /\ n = 0
  /\ srcOrg = [r \in Repos |-> FALSE]
  /\ tgt = [r \in Repos |-> Absent]
  /\ pc = "start"
  /\ i = 1
  /\ attempts = 0
  /\ results = <<>>
  /\ hasConflicts = FALSE
  /\ steps = [r \in Repos |-> <<>>]
  /\ failed = [r \in Repos |-> {}]
  /\ started = <<>>
  /\ err = "none"
  /\ failedRepo = 0
  /\ delays = 0
  /\ artifact = <<>>
  /\ exitCode = -1
  /\ cwd = "orig"
  /\ tempDir = FALSE
  /\ probeErr = FALSE
  /\ waited = 0

\* The results arrays the probing loop can build: one record per position,
\* action derived from sourceExists.
ResultLists ==
  UNION {{[k \in 1..m |->
             [repo |-> k, sourceExists |-> se[k], targetExists |-> te[k],
              action |-> IF se[k] THEN "fork" ELSE "create-fresh"]] :
           se \in [1..m -> BOOLEAN], te \in [1..m -> BOOLEAN]} : m \in 0..MaxRepos}

\* Two invocations of generateImportBlocks on the same results, at the times
\* t1 and t2, one of them in a dry run (dry1, dry2 tell which).
InitArtifact ==
  /\ fin \in {[rs |-> rs, t1 |-> t1, t2 |-> t2, dry1 |-> d1, dry2 |-> d2] :
                rs \in ResultLists, t1 \in Clock, t2 \in Clock,
                d1 \in BOOLEAN, d2 \in BOOLEAN}
  /\ fout = <<>>
  /\ fpc = "ready"
  /\ ScriptIdle

\* const importBlocks = generateImportBlocks(results), in both runs; the
\* call does not depend on dryRun.
GenerateTwice ==
  /\ fpc = "ready"
  /\ fout' = [a |-> generateImportBlocks(fin.rs, fin.t1),
              b |-> generateImportBlocks(fin.rs, fin.t2)]
  /\ fpc' = "done"
  /\ UNCHANGED <<fin, startup, pipeline>>

NextArtifact == GenerateTwice

SpecArtifact == InitArtifact /\ [][NextArtifact]_vars

Chars == {"a", "-", "_"}
NameStrings == UNION {[1..m -> Chars] : m \in 1..MaxNameLen}

\* String.prototype.startsWith
startsWith(s, p) == Len(p) <= Len(s) /\ SubSeq(s, 1, Len(p)) = p

\* A resource of cdk.tf.json: named <repo-name>_<resource-type>_<hash> after
\* the repository (owner) it belongs to.
Resource(owner) ==
  [type |-> "github_repository", owner |-> owner, name |-> owner \o <<"_", "r">>]

\* generateTerraformTargets(cdkTfJson, filteredRepos): one -target flag per
\* resource whose name starts with `${repoName}_` for some filtered name.
generateTerraformTargets(resources, filtered) ==
  LET matchesFilteredRepo(res) ==
        \E k \in 1..Len(filtered) : startsWith(res.name, filtered[k] \o <<"_">>)
      hits == SelectSeq(resources, matchesFilteredRepo)
  IN  [k \in 1..Len(hits) |-> [type |-> hits[k].type, name |-> hits[k].name]]

\* The resources of one or two repositories, and one filtered repository.
InitTargets ==
  /\ fin \in {[filtered |-> <<f>>, resources |-> rs] :
                f \in NameStrings,
                rs \in {<<Resource(o)>> : o \in NameStrings}
                       \cup {<<Resource(o1), Resource(o2)>> : o1 \in NameStrings, o2 \in NameStrings}}
  /\ fout = <<>>
  /\ fpc = "ready"
  /\ ScriptIdle

ApplyTargets ==
  /\ fpc = "ready"
  /\ fout' = generateTerraformTargets(fin.resources, fin.filtered)
  /\ fpc' = "done"
  /\ UNCHANGED <<fin, startup, pipeline>>

NextTargets == ApplyTargets

SpecTargets == InitTargets /\ [][NextTargets]_vars

\* C22 (as stated): a -target flag is emitted for a resource exactly when its
\* name starts with <repoName>_ for a filtered repository name, and a
\* resource that belongs to a different repository is never emitted.
C22_TargetsOnlyFilteredRepos ==
  fpc = "done" =>
    \A k \in 1..Len(fin.resources) :
      LET res == fin.resources[k]
          emitted == [type |-> res.type, name |-> res.name] \in Range(fout)
      IN  /\ emitted <=> \E j \in 1..Len(fin.filtered) :
                           startsWith(res.name, fin.filtered[j] \o <<"_">>)
          /\ emitted => res.owner \in Range(fin.filtered)

\* The prefixes of getSourceRepoName, as character strings.
TargetPrefix == <<"c", "d", "k", "t", "n", "-">>
SourcePrefix == <<"c", "d", "k", "t", "f", "-">>

\* Repository names built from up to MaxParts pieces: the two prefixes, the
\* target prefix without its hyphen, and another character.
Pieces == {TargetPrefix, SourcePrefix, <<"c", "d", "k", "t", "n">>, <<"x">>}
RECURSIVE Concat(_)
Concat(ps) == IF ps = <<>> THEN <<>> ELSE Head(ps) \o Concat(Tail(ps))
RepoNames == {Concat(ps) : ps \in UNION {[1..m -> Pieces] : m \in 0..MaxParts}}

\* s.replace(/cdktn-/g, 'cdktf-'): every occurrence, left to right.
RECURSIVE ReplaceAll(_)
ReplaceAll(s) ==
  IF s = <<>> THEN <<>>
  ELSE IF startsWith(s, TargetPrefix)
         THEN SourcePrefix \o ReplaceAll(SubSeq(s, Len(TargetPrefix) + 1, Len(s)))
         ELSE <<Head(s)>> \o ReplaceAll(Tail(s))

\* Variant of getSourceRepoName whose pattern is global and not anchored.
getSourceRepoName_Global(targetRepoName) == ReplaceAll(targetRepoName)

\* getSourceRepoName: targetRepoName.replace(/^cdktn-/, 'cdktf-')
getSourceRepoName(targetRepoName) ==
  IF startsWith(targetRepoName, TargetPrefix)
    THEN SourcePrefix \o SubSeq(targetRepoName, Len(TargetPrefix) + 1, Len(targetRepoName))
    ELSE targetRepoName

\* The inverse substitution: the leading cdktf- back to cdktn-.
InverseSubstitution(sourceRepoName) ==
  IF startsWith(sourceRepoName, SourcePrefix)
    THEN TargetPrefix \o SubSeq(sourceRepoName, Len(SourcePrefix) + 1, Len(sourceRepoName))
    ELSE sourceRepoName

InitSourceName ==
  /\ fin \in RepoNames
  /\ fout = <<>>
  /\ fpc = "ready"
  /\ ScriptIdle

\* Two calls of getSourceRepoName on the same name.
ApplySourceName ==
  /\ fpc = "ready"
  /\ fout' = [first |-> getSourceRepoName(fin), second |-> getSourceRepoName(fin)]
  /\ fpc' = "done"
  /\ UNCHANGED <<fin, startup, pipeline>>

NextSourceName == ApplySourceName

SpecSourceName == InitSourceName /\ [][NextSourceName]_vars

\* The part of a name after its first six characters.
Rest(s) == SubSeq(s, Len(TargetPrefix) + 1, Len(s))

\* C23: getSourceRepoName is deterministic; for a name that starts with
\* cdktn- it replaces only that leading prefix with cdktf- and the inverse
\* substitution gives the original name back; any name without the leading
\* prefix is returned unchanged.
C23_SourceNameDerivation ==
  fpc = "done" =>
    /\ fout.first = fout.second
    /\ IF startsWith(fin, TargetPrefix)
         THEN /\ startsWith(fout.first, SourcePrefix)
              /\ Rest(fout.first) = Rest(fin)
              /\ InverseSubstitution(fout.first) = fin
         ELSE fout.first = fin

C23_Witness ==
  /\ fpc = "done"
  /\ startsWith(fin, TargetPrefix)
  /\ startsWith(Rest(fin), TargetPrefix)
  /\ fout.first # fin
  /\ InverseSubstitution(fout.first) = fin

\* ---- a whole run: from the first statement of the script to its end ----

\* Like InitStartup, with repositories in the source organization as well
\* and with either variant of the pipeline; the filter flags name at most the
\* first repository.
InitRun ==
  /\ stackDir \in BOOLEAN
  /\ onlyRepos \in {{}, {{1}}}
  /\ excludeRepos \in {{}, {1}}
  /\ dirExists \in BOOLEAN
  /\ fileExists \in BOOLEAN
  /\ snapshot \in Snapshots
  /\ repos = <<>>
  /\ filteredRepos = <<>>
  /\ snapshotRead = FALSE
  /\ rerun = FirstRun
  /\ variant \in {"independent", "fork"}
  /\ dryRun \in BOOLEAN
  /\ n = 0
  /\ srcOrg \in [Repos -> BOOLEAN]
  /\ tgt \in [Repos -> {Absent, Present}]
  /\ pc = "start"
  /\ i = 1
  /\ attempts = 0
  /\ results = <<>>
  /\ hasConflicts = FALSE
  /\ steps = [r \in Repos |-> <<>>]
  /\ failed = [r \in Repos |-> {}]
  /\ started = <<>>
  /\ err = "none"
  /\ failedRepo = 0
  /\ delays = 0
  /\ artifact = <<>>
  /\ exitCode = -1
  /\ cwd = "orig"
  /\ tempDir = FALSE
  /\ probeErr = FALSE
  /\ waited = 0
  /\ PureIdle

NextRun ==
  \/ UsageExit
  \/ MutexExit
  \/ DirMissingExit
  \/ FileMissingExit
  \/ EnterMain
  \/ ReadSnapshot
  \/ FilterRepos
  \/ Next

SpecRun == InitRun /\ [][NextRun]_vars

\* The process has ended: process.exit was called or main() returned.
Terminated == pc \in {"exit", "done"}

\* Why the run ended, read off the state in the order the script tests it.
Outcome ==
  IF pc = "done" THEN "success"
  ELSE IF ~stackDir \/ BothFilters THEN "usageError"
  ELSE IF ~dirExists THEN "missingDirectory"
  ELSE IF ~fileExists THEN "missingSnapshot"
  ELSE IF err = "json" THEN "unparseableSnapshot"
  ELSE IF hasConflicts THEN "conflict"
  ELSE IF failedRepo # 0 THEN "stepFailure"
  ELSE IF FilterDone /\ n = 0 /\ results = <<>> THEN "emptyFilter"
  ELSE "other"

\* C24 (as stated): the exit code is 0 exactly when the run ends in success
\* or in empty-filter termination, and 1 exactly when it ends because of a
\* usage error, a missing input directory or snapshot, a detected conflict or
\* an aborting step failure; there is no other terminal outcome.
C24_Original ==
  Terminated =>
    /\ exitCode = 0 <=> Outcome \in {"success", "emptyFilter"}
    /\ exitCode = 1 <=> Outcome \in {"usageError", "missingDirectory", "missingSnapshot",
                                     "conflict", "stepFailure"}
    /\ exitCode \in {0, 1}

\* C24 (amended): the exit code is 0 exactly when the run ends in success or
\* in empty-filter termination, and 1 exactly when it ends because of a usage
\* error, a missing input directory or snapshot, a snapshot that does not
\* parse (the unexpected-error handler of main), a detected conflict or an
\* aborting step failure; there is no other terminal outcome, and the exit
\* code is set only at termination.
C24_ExitCodes ==
  /\ Terminated =>
       /\ exitCode = 0 <=> Outcome \in {"success", "emptyFilter"}
       /\ exitCode = 1 <=> Outcome \in {"usageError", "missingDirectory", "missingSnapshot",
                                        "unparseableSnapshot", "conflict", "stepFailure"}
       /\ exitCode \in {0, 1}
  /\ ~Terminated => exitCode = -1

C24_Witness ==
  /\ pc = "exit"
  /\ Outcome = "stepFailure"
  /\ exitCode = 1
  /\ snapshotRead /\ ~dryRun
  /\ Len(started) = 2

\* ---- fixTeamNames: the rewrite of the files of a cloned repository ----

\* The literal tokens of fixTeamNames as strings of pieces; the legacy team
\* name is a substring of the legacy email.
OLD_TEAM == <<"team-tf-cdk">>
OLD_EMAIL == <<"github-", "team-tf-cdk", "@hashicorp.com">>
\* Variant of NEW_TEAM that is built on the legacy team name.
NEW_TEAM_KeepsLegacy == <<"team-tf-cdk", "-terrain[bot]">>

NEW_TEAM == <<"team-cdk-terrain[bot]">>
NEW_EMAIL == <<"<254218809-", "team-cdk-terrain[bot]", "@users.noreply.github.com>">>
OLD_HANDLE == <<"@cdktf/tf-cdk-team">>
NEW_HANDLE == <<"@cdktn-io/team-cdk-terrain">>

\* String.prototype.includes
includes(s, p) == \E k \in 0..(Len(s) - Len(p)) : SubSeq(s, k + 1, k + Len(p)) = p

\* String.prototype.replaceAll: every occurrence, left to right.
RECURSIVE replaceAll(_, _, _)
replaceAll(s, old, new) ==
  IF Len(s) < Len(old) THEN s
  ELSE IF SubSeq(s, 1, Len(old)) = old
         THEN new \o replaceAll(SubSeq(s, Len(old) + 1, Len(s)), old, new)
         ELSE <<Head(s)>> \o replaceAll(Tail(s), old, new)

\* File contents: up to MaxPhrases phrases, each a legacy token or other text.
Phrases == {<<"x">>, OLD_TEAM, OLD_EMAIL, OLD_HANDLE}
Contents == {Concat(ps) : ps \in UNION {[1..m -> Phrases] : m \in 0..MaxPhrases}}

\* The cloned tree: .github/CODEOWNERS (readable or not) and the files found
\* under .github/workflows.
Trees ==
  {[hasCodeowners |-> h, codeowners |-> c, workflows |-> w] :
     h \in BOOLEAN, c \in Phrases,
     w \in UNION {[1..m -> Contents] : m \in 0..MaxFiles}}

\* content.replaceAll(OLD_TEAM, NEW_TEAM).replaceAll(OLD_EMAIL, NEW_EMAIL)
RewriteWorkflow(content) ==
  replaceAll(replaceAll(content, OLD_TEAM, NEW_TEAM), OLD_EMAIL, NEW_EMAIL)

\* The file-rewriting part of fixTeamNames on a tree t: CODEOWNERS is
\* rewritten and counted whenever it can be read; without workflow files the
\* function returns; a workflow file is rewritten and counted when it holds
\* OLD_TEAM or OLD_EMAIL; commit and push follow unless filesChanged is 0, and
\* the commit holds what git add .github/workflows/*.yml staged.
RewriteTree(t) ==
  LET hit(k) == includes(t.workflows[k], OLD_TEAM) \/ includes(t.workflows[k], OLD_EMAIL)
      hits == {k \in 1..Len(t.workflows) : hit(k)}
      filesChanged == (IF t.hasCodeowners THEN 1 ELSE 0) + Cardinality(hits)
      noWorkflows == Len(t.workflows) = 0
  IN  [codeowners |-> IF t.hasCodeowners
                        THEN replaceAll(t.codeowners, OLD_HANDLE, NEW_HANDLE)
                        ELSE t.codeowners,
       workflows |-> [k \in 1..Len(t.workflows) |->
                        IF hit(k) THEN RewriteWorkflow(t.workflows[k]) ELSE t.workflows[k]],
       written |-> (IF t.hasCodeowners THEN {0} ELSE {}) \cup hits,
       filesChanged |-> IF noWorkflows THEN (IF t.hasCodeowners THEN 1 ELSE 0) ELSE filesChanged,
       commit |-> ~noWorkflows /\ filesChanged > 0,
       committed |-> IF ~noWorkflows /\ filesChanged > 0 THEN hits ELSE {}]

InitRewrite ==
  /\ fin \in Trees
  /\ fout = <<>>
  /\ fpc = "ready"
  /\ ScriptIdle

ApplyRewrite ==
  /\ fpc = "ready"
  /\ fout' = RewriteTree(fin)
  /\ fpc' = "done"
  /\ UNCHANGED <<fin, startup, pipeline>>

NextRewrite == ApplyRewrite

SpecRewrite == InitRewrite /\ [][NextRewrite]_vars

\* The content of file f of a tree (0 is CODEOWNERS, k the k-th workflow file).
FileOf(t, f) == IF f = 0 THEN t.codeowners ELSE t.workflows[f]
HasLegacyToken(c) == includes(c, OLD_TEAM) \/ includes(c, OLD_EMAIL) \/ includes(c, OLD_HANDLE)
FilesOf(t) == (IF t.hasCodeowners THEN {0} ELSE {}) \cup (1..Len(t.workflows))

\* C25 (as stated): the rewrite writes a file only if its content holds a
\* legacy token, and commit/push is attempted exactly when the content of at
\* least one file was changed by the rewrite.
C25_WriteAndCommitOnlyOnChange ==
  fpc = "done" =>
    /\ \A f \in fout.written : HasLegacyToken(FileOf(fin, f))
    /\ fout.commit <=> \E f \in FilesOf(fin) : FileOf(fout, f) # FileOf(fin, f)

\* Each legacy token replaced by its own replacement: the email before the
\* team name that is a part of it, then the ownership handle.
Designated(c) ==
  replaceAll(replaceAll(replaceAll(c, OLD_EMAIL, NEW_EMAIL), OLD_TEAM, NEW_TEAM),
             OLD_HANDLE, NEW_HANDLE)

\* C26 (as stated): after the rewrite of a file no legacy token remains in it
\* and each token has been replaced by its own replacement; a legacy email
\* becomes the new service email, not an address rewritten in part by the
\* team-name rule.
C26_TokensFullyReplaced ==
  fpc = "done" =>
    \A f \in fout.written :
      /\ ~HasLegacyToken(FileOf(fout, f))
      /\ FileOf(fout, f) = Designated(FileOf(fin, f))

\* C27: one fixed delay separates consecutive repositories of the execute
\* loop.  Every repository started after the first was preceded by exactly
\* one delay; a delay is taken only after a repository whose migration
\* completed and that is not the last one; after the last repository and
\* after a failed one there is none.
C27_DelayBetweenRepos ==
  /\ started = <<>> => delays = 0
  /\ started # <<>> =>
       delays = (IF pc \in {"create", "fork"} THEN Len(started) ELSE Len(started) - 1)
  /\ pc = "delay" =>
       /\ failedRepo = 0
       /\ i < Len(toFork)
       /\ Len(started) = i
  /\ failedRepo # 0 => delays = Pos(failedRepo) - 1
  /\ (pc \in {"artifact", "done"} /\ started # <<>>) => delays = Len(toFork) - 1

C27_Witness ==
  /\ pc = "exit"
  /\ failedRepo = 2
  /\ delays = 1

\* A repository between the start of its creation and its completion or
\* failure.
InProgress(r) == r \in Range(started) /\ ~Completed(r) /\ failedRepo # r

\* C28: migration is strictly sequential.  At most one repository is in
\* progress at any moment; every repository started before the latest one has
\* completed; and every remote call goes to the repository started last, so
\* the first call for the next repository follows the last call for the
\* previous one.
C28_StrictlySequential ==
  /\ [](/\ Cardinality({r \in Repos : InProgress(r)}) <= 1
        /\ \A k \in 1..(Len(started) - 1) :
             Completed(started[k]) /\ started[k] # started[Len(started)])
  /\ [][\A r \in Repos :
          steps'[r] # steps[r] =>
            (started' # <<>> /\ r = started'[Len(started')])]_vars

C28_Witness ==
  /\ Len(started) = 2
  /\ InProgress(started[2])
  /\ Completed(started[1])
  /\ pc = "hist_push"

\* C29: exactly one result record is appended per filtered repository, in
\* input order: while the probing loop is at position i the records of the
\* positions before i are there, after the loop there is one record per
\* filtered repository, the k-th for the k-th repository; a step either
\* leaves results alone or appends one record, and never changes or removes
\* a record.
C29_OneRecordPerRepository ==
  /\ [](/\ pc = "filtered" => results = <<>>
        /\ pc = "probe" => Len(results) = i - 1
        /\ pc \notin {"filtered", "probe"} => Len(results) = n
        /\ \A k \in 1..Len(results) : results[k].repo = filteredRepos[k])
  /\ [][\/ results' = results
        \/ /\ pc = "probe"
           /\ Len(results') = Len(results) + 1
           /\ IsPrefix(results, results')]_vars

C29_Witness ==
  /\ Len(results) = MaxRepos
  /\ n = MaxRepos
  /\ pc = "done" /\ ~dryRun
  /\ Len(started) = 1

\* ---- a second invocation after the first was killed or aborted ----

\* The first invocation: an execute run that finds no target repository.
InitRerun ==
  /\ Init
  /\ ~dryRun
  /\ tgt = [r \in Repos |-> Absent]

\* The first process ends at any step (killed, aborted or finished) and the
\* script is invoked again with the same arguments: the new process starts
\* with fresh variables, while the organizations are as the first left them.
Rerun ==
  /\ ~rerun.active
  /\ pc # "filtered"
  /\ rerun' = [active |-> TRUE, left |-> {r \in 1..n : tgt[r].exists}]
  /\ pc' = "filtered"
  /\ i' = 1
  /\ attempts' = 0
  /\ waited' = 0
  /\ results' = <<>>
  /\ hasConflicts' = FALSE
  /\ probeErr' = FALSE
  /\ steps' = [r \in Repos |-> <<>>]
  /\ failed' = [r \in Repos |-> {}]
  /\ started' = <<>>
  /\ err' = "none"
  /\ failedRepo' = 0
  /\ delays' = 0
  /\ artifact' = <<>>
  /\ exitCode' = -1
  /\ cwd' = "orig"
  /\ tempDir' = FALSE
  /\ UNCHANGED <<variant, dryRun, n, srcOrg, tgt, pure>>
  /\ UNCHANGED <<stackDir, onlyRepos, excludeRepos, dirExists, fileExists, snapshot,
                 repos, filteredRepos, snapshotRead>>

NextRerun == Next \/ Rerun

SpecRerun == InitRerun /\ [][NextRerun]_vars

\* C30 (as stated): in a re-run after a killed or aborted run, as long as a
\* target repository left behind by the earlier run still exists, no mutating
\* call is made; the re-run detects the conflict and can only end with exit
\* code 1.
C30_RerunRefuses ==
  (rerun.active /\ \E r \in rerun.left : tgt[r].exists) =>
    /\ NoMutation
    /\ pc \in {"filtered", "probe", "checked", "exit"}
    /\ pc = "exit" => exitCode = 1

\* ---- the target organization changed by another actor during a run ----

\* A run that starts while no target repository exists.
InitRace ==
  /\ Init
  /\ tgt = [r \in Repos |-> Absent]

\* Somebody else creates a repository of a selected name in the target
\* organization; the script's process state is untouched.
OtherActorCreates ==
  /\ pc \notin {"exit", "done"}
  /\ \E r \in 1..n :
       /\ ~tgt[r].exists
       /\ tgt' = [tgt EXCEPT ![r] = Present]
  /\ UNCHANGED <<startup, pure, cwd, tempDir, probeErr, waited, variant, dryRun, n, srcOrg, pc, i,
                 attempts, results, hasConflicts, steps, failed, started, err, failedRepo,
                 delays, artifact, exitCode>>

NextRace == Next \/ OtherActorCreates

SpecRace == InitRace /\ [][NextRace]_vars

\* The calls of one kind the run made for repository r, and whether one succeeded.
Called(r, s) == s \in Range(steps[r])
Succeeded(r, s) == Called(r, s) /\ s \notin failed[r]

\* C31 (as stated): a target repository is deleted by the compensating
\* deletion only if the current run created it; a repository that another
\* actor created after the probe, which makes the create call fail, is not
\* deleted.
C31_DeletesOnlyOwnRepository ==
  \A r \in Repos : Succeeded(r, "delete") => Succeeded(r, "create")

\* The execute run of the independent-repository pipeline has ended with exit
\* code 0.
ExecuteSucceeded ==
  variant = "independent" /\ ~dryRun /\ pc \in {"done", "exit"} /\ exitCode = 0

\* C32 (as stated): when the execute run ends with exit code 0, every
\* repository with action Fork exists in the target organization, has received
\* its history and has workflow execution enabled.
C32_SuccessMeansMigrated ==
  ExecuteSucceeded =>
    \A k \in 1..Len(toFork) :
      LET t == tgt[toFork[k].repo]
      IN  t.exists /\ t.history /\ t.actions

\* The number of calls of kind s the run made for repository r.
Calls(r, s) == Len(SelectSeq(steps[r], LAMBDA x : x = s))

\* C33: when the compensating deletion itself fails, the error that is
\* propagated is still the one of the failed step, the run aborts and can only
\* end with exit code 1, the deletion was attempted once and is the last call
\* of the run, and the failed step was not tried again.
C33_CleanupBestEffort ==
  \A r \in Repos :
    "delete" \in failed[r] =>
      /\ err \in {"create", "timeout", "histClone", "mirrorPush"}
      /\ failedRepo = r
      /\ started[Len(started)] = r
      /\ pc \in {"abort", "exit"}
      /\ pc = "exit" => exitCode = 1
      /\ Calls(r, "delete") = 1
      /\ steps[r][Len(steps[r])] = "delete"
      /\ err # "timeout" => Calls(r, err) = 1 /\ err \in failed[r]
      /\ err = "timeout" => Calls(r, "create") = 1 /\ "poll" \in failed[r]
      /\ \A q \in Repos \ Range(started) : steps[q] = <<>>

\* The deletion failed after a failed mirror push, the run has ended and the
\* partially created repository is still there.
C33_Witness ==
  \E r \in Repos :
    /\ "delete" \in failed[r]
    /\ err = "mirrorPush"
    /\ pc = "exit"
    /\ tgt[r].exists

\* The steps whose failure aborts the run.
AbortingSteps == {"create", "poll", "histClone", "mirrorPush", "fork"}

\* C34: once a step failure has aborted the execute run the import artifact is
\* not written, also when earlier repositories of the run were migrated; an
\* artifact is written only in a dry run or after every Fork migration of the
\* run went through without an aborting failure.
C34_NoArtifactAfterAbort ==
  /\ failedRepo # 0 => artifact = <<>>
  /\ pc \in {"cleanup", "abort", "exit"} => artifact = <<>>
  /\ artifact # <<>> =>
       /\ pc = "done"
       /\ dryRun \/ \A k \in 1..Len(toFork) :
                      /\ Completed(toFork[k].repo)
                      /\ failed[toFork[k].repo] \cap AbortingSteps = {}

\* The second repository failed after the first was migrated and stays in the
\* target organization; the run has ended without an artifact.
C34_Witness ==
  /\ pc = "exit"
  /\ failedRepo # 0
  /\ artifact = <<>>
  /\ \E r \in Repos : r # failedRepo /\ Completed(r) /\ tgt[r].exists /\ tgt[r].history

\* C35 (as stated): every file whose content the rewrite changed, the
\* ownership-declaration file and the case without workflow files included,
\* is part of the commit that is pushed.
C35_RewrittenFilesCommitted ==
  fpc = "done" =>
    \A f \in FilesOf(fin) :
      FileOf(fout, f) # FileOf(fin, f) => f \in fout.committed

\* ---- fix-all-team-references.sh: the per-repository loop under set -e ----

\* The exit status of the arithmetic command ((V++)): the value of V++ is the
\* old value of V, and a value of zero gives status 1.
PostIncrementStatus(v) == IF v = 0 THEN 1 ELSE 0

\* The script's variables before the loop.
ShellVars == [REPO |-> 1, SUCCESS_COUNT |-> 0, SKIP_COUNT |-> 0, ERROR_COUNT |-> 0,
              FILES_CHANGED |-> 0, summary |-> FALSE, status |-> -1]

\* fin.REPO_COUNT is the number of listed repositories.  fin.errexit tells
\* whether the shell applies set -e to a failing (( )) command, which bash
\* does from version 4.1 on and older versions do not.
InitShell ==
  /\ fin \in [REPO_COUNT : 0..(MaxRepos + 1), errexit : BOOLEAN]
  /\ fout = ShellVars
  /\ fpc = "ready"
  /\ ScriptIdle

\* ((V++)) of counter c followed by continue or the end of the loop body:
\* the counter is incremented, and under set -e a status of 1 ends the script
\* there, before the next repository and before the summary.
Count(c) ==
  LET v == [fout EXCEPT ![c] = @ + 1]
  IN  IF fin.errexit /\ PostIncrementStatus(fout[c]) # 0
        THEN /\ fout' = [v EXCEPT !.status = 1]
             /\ fpc' = "exited"
        ELSE /\ fout' = [v EXCEPT !.REPO = @ + 1]
             /\ fpc' = (IF fout.REPO < fin.REPO_COUNT THEN "clone" ELSE "summary")

\* The repository list: an empty list ends the script with status 1.
ShList ==
  /\ fpc = "ready"
  /\ IF fin.REPO_COUNT = 0
       THEN fout' = [fout EXCEPT !.status = 1] /\ fpc' = "exited"
       ELSE fout' = fout /\ fpc' = "clone"
  /\ UNCHANGED <<fin, startup, pipeline>>

\* Steps 1 and 2: branch protection is dropped and the repository is cloned;
\* a failed clone counts an error.
ShClone ==
  /\ fpc = "clone"
  /\ \E ok \in BOOLEAN :
       IF ok THEN fout' = [fout EXCEPT !.FILES_CHANGED = 0] /\ fpc' = "check"
             ELSE Count("ERROR_COUNT")
  /\ UNCHANGED <<fin, startup, pipeline>>

\* Step 3: NEEDS_UPDATE; a repository without legacy tokens counts as skipped.
ShCheck ==
  /\ fpc = "check"
  /\ \E NEEDS_UPDATE \in BOOLEAN :
       IF NEEDS_UPDATE THEN fout' = fout /\ fpc' = "update"
                       ELSE Count("SKIP_COUNT")
  /\ UNCHANGED <<fin, startup, pipeline>>

\* Step 4: the files are edited; the first ((FILES_CHANGED++)) has status 1.
\* Without a changed file the repository counts as skipped.
ShUpdate ==
  /\ fpc = "update"
  /\ \E changed \in BOOLEAN :
       IF ~changed
         THEN Count("SKIP_COUNT")
         ELSE IF fin.errexit /\ PostIncrementStatus(fout.FILES_CHANGED) # 0
                THEN /\ fout' = [fout EXCEPT !.FILES_CHANGED = 1, !.status = 1]
                     /\ fpc' = "exited"
                ELSE /\ fout' = [fout EXCEPT !.FILES_CHANGED = 1]
                     /\ fpc' = "commit"
  /\ UNCHANGED <<fin, startup, pipeline>>

\* Step 5: git add and git commit are plain commands under set -e.
ShCommit ==
  /\ fpc = "commit"
  /\ \E ok \in BOOLEAN :
       IF ok THEN fout' = fout /\ fpc' = "push"
             ELSE fout' = [fout EXCEPT !.status = 1] /\ fpc' = "exited"
  /\ UNCHANGED <<fin, startup, pipeline>>

\* Step 5: git push; success and failure each count.
ShPush ==
  /\ fpc = "push"
  /\ \E ok \in BOOLEAN :
       IF ok THEN Count("SUCCESS_COUNT") ELSE Count("ERROR_COUNT")
  /\ UNCHANGED <<fin, startup, pipeline>>

\* The summary is printed and the script ends with status 1 if ERROR_COUNT is
\* positive.
ShSummary ==
  /\ fpc = "summary"
  /\ fout' = [fout EXCEPT !.summary = TRUE,
                          !.status = IF fout.ERROR_COUNT > 0 THEN 1 ELSE 0]
  /\ fpc' = "exited"
  /\ UNCHANGED <<fin, startup, pipeline>>

NextShell == ShList \/ ShClone \/ ShCheck \/ ShUpdate \/ ShCommit \/ ShPush \/ ShSummary

SpecShell == InitShell /\ [][NextShell]_vars

\* The sum of the three counters.
Counted == fout.SUCCESS_COUNT + fout.SKIP_COUNT + fout.ERROR_COUNT

\* C36 (as stated): the script processes every listed repository: a clone
\* failure, an up-to-date repository or a failed push is followed by the next
\* repository, every repository increments exactly one of the three counters,
\* and the script ends only after the summary, where the counters sum to the
\* number of listed repositories.
C36_EveryRepositoryCounted ==
  /\ fpc = "clone" => Counted = fout.REPO - 1
  /\ (fpc = "exited" /\ fin.REPO_COUNT > 0) =>
       /\ fout.summary
       /\ Counted = fin.REPO_COUNT

\* ---- the rewrite rules applied to content that was already rewritten ----

\* NEW_EMAIL of fix-all-team-references.sh has no angle brackets.
SH_NEW_EMAIL == <<"254218809-", "team-cdk-terrain[bot]", "@users.noreply.github.com">>

\* fixTeamNames on one workflow file: both rules, if the file holds a token.
RewriteFileJs(content) ==
  IF includes(content, OLD_TEAM) \/ includes(content, OLD_EMAIL)
    THEN RewriteWorkflow(content)
    ELSE content

\* fixTeamNames on CODEOWNERS.
RewriteCodeowners(content) == replaceAll(content, OLD_HANDLE, NEW_HANDLE)

\* The script's Step 4 on one file: sed for the email, then sed for the team.
RewriteFileSh(content) ==
  replaceAll(replaceAll(content, OLD_EMAIL, SH_NEW_EMAIL), OLD_TEAM, NEW_TEAM)

Rewriters == {"workflow", "codeowners", "script"}

Rewrite(by, content) ==
  CASE by = "workflow" -> RewriteFileJs(content)
    [] by = "codeowners" -> RewriteCodeowners(content)
    [] by = "script" -> RewriteFileSh(content)

\* File contents for the repeated rewrite: legacy tokens, their parts, the
\* replacement texts and other text.
RewritePhrases ==
  Phrases \cup {<<"github-">>, <<"@hashicorp.com">>, NEW_TEAM, NEW_HANDLE}
RewriteContents ==
  {Concat(ps) : ps \in UNION {[1..m -> RewritePhrases] : m \in 0..MaxPhrases}}

InitIdempotent ==
  /\ fin \in [by : Rewriters, content : RewriteContents]
  /\ fout = <<>>
  /\ fpc = "ready"
  /\ ScriptIdle

\* The rules applied to the original content.
RewriteOnce ==
  /\ fpc = "ready"
  /\ fout' = <<Rewrite(fin.by, fin.content)>>
  /\ fpc' = "once"
  /\ UNCHANGED <<fin, startup, pipeline>>

\* The same rules applied to the rewritten content.
RewriteAgain ==
  /\ fpc = "once"
  /\ fout' = Append(fout, Rewrite(fin.by, fout[1]))
  /\ fpc' = "twice"
  /\ UNCHANGED <<fin, startup, pipeline>>

NextIdempotent == RewriteOnce \/ RewriteAgain

SpecIdempotent == InitIdempotent /\ [][NextIdempotent]_vars

\* C37: the rewrite is idempotent on file content: applying the rules of
\* fixTeamNames (workflow file or CODEOWNERS) or of the script to content they
\* already rewrote changes nothing; no replacement text holds a legacy token,
\* and neither does rewritten content under the rules that rewrote it.
C37_RewriteIdempotent ==
  /\ \A new \in {NEW_TEAM, NEW_EMAIL, SH_NEW_EMAIL, NEW_HANDLE} : ~HasLegacyToken(new)
  /\ fpc = "twice" => fout[2] = fout[1]
  /\ (fpc = "once" /\ fin.by = "codeowners") => ~includes(fout[1], OLD_HANDLE)
  /\ (fpc = "once" /\ fin.by # "codeowners") =>
       ~includes(fout[1], OLD_TEAM) /\ ~includes(fout[1], OLD_EMAIL)

\* The script rewrote a file holding the legacy email and was applied again.
C37_Witness ==
  /\ fpc = "twice"
  /\ fin.by = "script"
  /\ includes(fin.content, OLD_EMAIL)
  /\ fout[1] # fin.content
  /\ includes(fout[2], SH_NEW_EMAIL)
====
